---- MODULE Spec2Model ----
(***************************************************************************)
(* A model of the cache engine: the size-aware LRU, the TTL min-heap, the  *)
(* shard actor (read fast path, mailbox, dispatcher, sweeper) and the      *)
(* store facade (routing and batch fan-out).                               *)
(*                                                                         *)
(* Conventions.  Time is Date.now() in milliseconds.  A TTL is carried as  *)
(* the integer ttlSec * 1000 (the engine accepts fractional ttlSec).  The  *)
(* JavaScript values undefined / null / '' of an optional number or string *)
(* field are written 0: the code only ever tests such fields for           *)
(* truthiness.  ulid() is a counter: every call returns a fresh token.     *)
(***************************************************************************)
EXTENDS Integers, Sequences, FiniteSets, TLC

(***************************************************************************)
(* Bounds of the model.                                                    *)
(***************************************************************************)
MaxTime == 2
MaxCalls == 5
MaxTraffic == 3
MaxSeqCalls == 4
MaxItemBytes == 8
MaxShardMailbox == 2
MaxBatch == 3
MaxBatchCalls == 2

(***************************************************************************)
(* Program constants.                                                      *)
(***************************************************************************)
NumShards == 2
DefaultMaxInflight == 1000
Infinity == -1
NumberSizeBytes == 8
BooleanSizeBytes == 1

(***************************************************************************)
(* Generic helpers.                                                        *)
(***************************************************************************)
Last(s) == s[Len(s)]
Front(s) == SubSeq(s, 1, Len(s) - 1)
Range(s) == {s[i] : i \in 1..Len(s)}
RemoveAt(s, i) == SubSeq(s, 1, i - 1) \o SubSeq(s, i + 1, Len(s))

RECURSIVE SumSeq(_)
SumSeq(s) == IF s = <<>> THEN 0 ELSE Head(s) + SumSeq(Tail(s))

(***************************************************************************)
(* Keys.  A key is a string; the model writes it as the sequence of its    *)
(* UTF-16 code units, which is what the hash reads.                        *)
(***************************************************************************)
KeyA == <<97>>
KeyB == <<98>>
KeyC == <<99>>
Keys == {KeyA, KeyB, KeyC}

\* Arithmetic modulo 2^31 on 0..2^31-1 (the & 0x7fffffff of the hash), written
\* so that no intermediate result leaves the 32-bit integers
Mask31 == 2147483647
Half31 == (Mask31 \div 2) + 1
Double31(x) == IF x >= Half31 THEN (x - Half31) * 2 ELSE x * 2
Add31(a, b) == IF a > Mask31 - b THEN (a - (Mask31 - b)) - 1 ELSE a + b
Sub31(a, b) == IF a >= b THEN a - b ELSE (a + (Mask31 - b)) + 1
ShiftLeft5(x) == Double31(Double31(Double31(Double31(Double31(x)))))

\* hash = ((hash << 5) - hash + charCode) & 0x7fffffff, over the code units
RECURSIVE HashFrom(_, _)
HashFrom(hash, codes) ==
    IF codes = <<>> THEN hash
    ELSE HashFrom(Add31(Sub31(ShiftLeft5(hash), hash), Head(codes)), Tail(codes))

simpleHash(key, numShards) == HashFrom(0, key) % numShards

getShardForKey(key, numShards) == simpleHash(key, numShards)

Shards == 0..(NumShards - 1)

(***************************************************************************)
(* Values.  A JavaScript value is a record: kind is its runtime shape,     *)
(* chars the code units of a string (or of JSON.stringify of an object),   *)
(* num the number (or 0/1 for a boolean).                                  *)
(***************************************************************************)
JsString(cs) == [kind |-> "string", chars |-> cs, num |-> 0]
JsNumber(n) == [kind |-> "number", chars |-> <<>>, num |-> n]
JsBoolean(b) == [kind |-> "boolean", chars |-> <<>>, num |-> IF b THEN 1 ELSE 0]
JsObject(json) == [kind |-> "object", chars |-> json, num |-> 0]
JsNull == [kind |-> "null", chars |-> <<>>, num |-> 0]

inferValueType(value) ==
    CASE value.kind = "string" -> "string"
      [] value.kind = "number" -> "number"
      [] value.kind = "boolean" -> "boolean"
      [] value.kind = "object" -> "json"
      [] OTHER -> "string"

\* TRUE when validateValueType(value, type) returns, FALSE when it throws
validateValueType(value, type) ==
    CASE type = "string" -> value.kind = "string"
      [] type = "number" -> value.kind = "number"
      [] type = "boolean" -> value.kind = "boolean"
      [] type = "json" -> value.kind = "object"
      [] OTHER -> FALSE

\* Buffer.byteLength(s, 'utf8') for code units outside the surrogate range
Utf8Bytes(code) == IF code < 128 THEN 1 ELSE IF code < 2048 THEN 2 ELSE 3

byteLength(cs) == SumSeq([i \in 1..Len(cs) |-> Utf8Bytes(cs[i])])

calculateValueSize(value, type) ==
    CASE type = "string" -> byteLength(value.chars)
      [] type = "number" -> NumberSizeBytes
      [] type = "boolean" -> BooleanSizeBytes
      [] type = "json" -> byteLength(value.chars)
      [] OTHER -> 0

(***************************************************************************)
(* Size-aware LRU.  nodes lists the linked list from head (most recently   *)
(* used) to tail; the key index is the set of keys of nodes.               *)
(***************************************************************************)
SizeAwareLRU(capacity, maxSizeBytes) ==
    [nodes |-> <<>>, size |-> 0, currentSizeBytes |-> 0,
     capacity |-> capacity, maxSizeBytes |-> maxSizeBytes]

\* x > limit, where limit may be Infinity
Exceeds(x, limit) == limit # Infinity /\ x > limit

LruHas(l, key) == \E i \in 1..Len(l.nodes) : l.nodes[i].key = key

LruIndex(l, key) == CHOOSE i \in 1..Len(l.nodes) : l.nodes[i].key = key

moveToFront(nodes, i) == <<nodes[i]>> \o RemoveAt(nodes, i)

\* a get that returns the value and leaves the node where it is
LruGetUnpromoted(l, key) == l

LruGet(l, key) ==
    IF ~LruHas(l, key) THEN l
    ELSE [l EXCEPT !.nodes = moveToFront(l.nodes, LruIndex(l, key))]

\* the eviction loop detaching the head (the most recently used node) instead
\* of the tail
RECURSIVE EvictLoopFromHead(_, _)
EvictLoopFromHead(l, evicted) ==
    IF Exceeds(l.size, l.capacity) \/ Exceeds(l.currentSizeBytes, l.maxSizeBytes)
    THEN IF l.nodes = <<>> THEN <<l, evicted>>
         ELSE EvictLoopFromHead([l EXCEPT !.nodes = Tail(l.nodes),
                                          !.size = l.size - 1,
                                          !.currentSizeBytes = l.currentSizeBytes
                                                               - Head(l.nodes).sizeBytes],
                                Append(evicted, Head(l.nodes).key))
    ELSE <<l, evicted>>

\* an eviction loop that spares the last node
RECURSIVE EvictLoopSparing(_, _)
EvictLoopSparing(l, evicted) ==
    IF Exceeds(l.size, l.capacity) \/ Exceeds(l.currentSizeBytes, l.maxSizeBytes)
    THEN IF Len(l.nodes) <= 1 THEN <<l, evicted>>
         ELSE EvictLoopSparing([l EXCEPT !.nodes = Front(l.nodes),
                                         !.size = l.size - 1,
                                         !.currentSizeBytes = l.currentSizeBytes
                                                              - Last(l.nodes).sizeBytes],
                               Append(evicted, Last(l.nodes).key))
    ELSE <<l, evicted>>

\* evictLRU: detach the tail; the pair <<lru, evicted values>>
RECURSIVE EvictLoop(_, _)
EvictLoop(l, evicted) ==
    IF Exceeds(l.size, l.capacity) \/ Exceeds(l.currentSizeBytes, l.maxSizeBytes)
    THEN IF l.nodes = <<>> THEN <<l, evicted>>
         ELSE EvictLoop([l EXCEPT !.nodes = Front(l.nodes),
                                  !.size = l.size - 1,
                                  !.currentSizeBytes = l.currentSizeBytes
                                                       - Last(l.nodes).sizeBytes],
                        Append(evicted, Last(l.nodes).key))
    ELSE <<l, evicted>>

\* a set that adds the new size of an existing key to the total and leaves
\* the old size in it
LruSetAdding(l, key, sizeBytes) ==
    LET node == [key |-> key, sizeBytes |-> sizeBytes]
        placed ==
            IF LruHas(l, key)
            THEN LET i == LruIndex(l, key) IN
                 [l EXCEPT !.currentSizeBytes = l.currentSizeBytes + sizeBytes,
                           !.nodes = <<node>> \o RemoveAt(l.nodes, i)]
            ELSE [l EXCEPT !.nodes = <<node>> \o l.nodes,
                           !.size = l.size + 1,
                           !.currentSizeBytes = l.currentSizeBytes + sizeBytes]
    IN EvictLoop(placed, <<>>)

LruSet(l, key, sizeBytes) ==
    LET node == [key |-> key, sizeBytes |-> sizeBytes]
        placed ==
            IF LruHas(l, key)
            THEN LET i == LruIndex(l, key) IN
                 [l EXCEPT !.currentSizeBytes = (l.currentSizeBytes - l.nodes[i].sizeBytes)
                                                + sizeBytes,
                           !.nodes = <<node>> \o RemoveAt(l.nodes, i)]
            ELSE [l EXCEPT !.nodes = <<node>> \o l.nodes,
                           !.size = l.size + 1,
                           !.currentSizeBytes = l.currentSizeBytes + sizeBytes]
    IN EvictLoop(placed, <<>>)

\* keys(): the keys from the tail (least recently used) to the head
LruKeys(l) == [i \in 1..Len(l.nodes) |-> l.nodes[Len(l.nodes) + 1 - i].key]

LruDelete(l, key) ==
    IF ~LruHas(l, key) THEN l
    ELSE LET i == LruIndex(l, key) IN
         [l EXCEPT !.nodes = RemoveAt(l.nodes, i),
                   !.size = l.size - 1,
                   !.currentSizeBytes = l.currentSizeBytes - l.nodes[i].sizeBytes]

(***************************************************************************)
(* TTL min-heap.  The array is 0-based in the code; At reads index i.      *)
(***************************************************************************)
At(heap, i) == heap[i + 1]

swap(heap, i, j) == [heap EXCEPT ![i + 1] = heap[j + 1], ![j + 1] = heap[i + 1]]

RECURSIVE heapifyUp(_, _)
heapifyUp(heap, index) ==
    IF index = 0 THEN heap
    ELSE LET parentIndex == (index - 1) \div 2 IN
         IF At(heap, index).expiresAt < At(heap, parentIndex).expiresAt
         THEN heapifyUp(swap(heap, index, parentIndex), parentIndex)
         ELSE heap

\* a heapifyDown that looks at the left child only
RECURSIVE heapifyDownLeft(_, _)
heapifyDownLeft(heap, index) ==
    LET leftChild == 2 * index + 1
        smallest == IF leftChild < Len(heap)
                       /\ At(heap, leftChild).expiresAt < At(heap, index).expiresAt
                    THEN leftChild ELSE index
    IN IF smallest # index
       THEN heapifyDownLeft(swap(heap, index, smallest), smallest)
       ELSE heap

RECURSIVE heapifyDown(_, _)
heapifyDown(heap, index) ==
    LET leftChild == 2 * index + 1
        rightChild == 2 * index + 2
        s1 == IF leftChild < Len(heap)
                 /\ At(heap, leftChild).expiresAt < At(heap, index).expiresAt
              THEN leftChild ELSE index
        smallest == IF rightChild < Len(heap)
                       /\ At(heap, rightChild).expiresAt < At(heap, s1).expiresAt
                    THEN rightChild ELSE s1
    IN IF smallest # index
       THEN heapifyDown(swap(heap, index, smallest), smallest)
       ELSE heap

HeapPush(heap, entry) == heapifyUp(Append(heap, entry), Len(heap))

\* pop on a non-empty heap: the heap that is left (the popped record is heap[1])
HeapPop(heap) ==
    IF Len(heap) = 1 THEN <<>>
    ELSE heapifyDown([Front(heap) EXCEPT ![1] = Last(heap)], 0)

\* a popExpired that pops every record, due or not
RECURSIVE popExpiredAll(_, _, _)
popExpiredAll(heap, t, expired) ==
    IF Len(heap) > 0
    THEN popExpiredAll(HeapPop(heap), t, Append(expired, At(heap, 0)))
    ELSE <<heap, expired>>

\* a popExpired that leaves the records that expire exactly at t
RECURSIVE popExpiredStrict(_, _, _)
popExpiredStrict(heap, t, expired) ==
    IF Len(heap) > 0 /\ At(heap, 0).expiresAt < t
    THEN popExpiredStrict(HeapPop(heap), t, Append(expired, At(heap, 0)))
    ELSE <<heap, expired>>

\* popExpired: the pair <<heap, expired records in pop order>>
RECURSIVE popExpired(_, _, _)
popExpired(heap, t, expired) ==
    IF Len(heap) > 0 /\ At(heap, 0).expiresAt <= t
    THEN popExpired(HeapPop(heap), t, Append(expired, At(heap, 0)))
    ELSE <<heap, expired>>

(***************************************************************************)
(* Shard.  entries is the Map key -> CacheEntry; awaiting holds the        *)
(* operation the dispatcher has executed and whose reply it has not yet    *)
(* delivered (the await in processOperations), together with the entry the *)
(* key had and the time when it executed.                                  *)
(***************************************************************************)
EmptyMap == [x \in {} |-> 0]
Put(m, k, e) == [x \in DOMAIN m \cup {k} |-> IF x = k THEN e ELSE m[x]]
Remove(m, k) == [x \in DOMAIN m \ {k} |-> m[x]]
Lookup(m, k) == IF k \in DOMAIN m THEN <<m[k]>> ELSE <<>>

CacheShard(shardId, maxItemBytes, memoryBudgetBytes) ==
    [shardId |-> shardId,
     maxItemBytes |-> maxItemBytes,
     entries |-> EmptyMap,
     lru |-> SizeAwareLRU(Infinity,
                          IF memoryBudgetBytes # 0 THEN memoryBudgetBytes ELSE Infinity),
     ttlHeap |-> <<>>,
     operationQueue |-> <<>>,
     isProcessing |-> FALSE,
     awaiting |-> <<>>,
     expirationTimer |-> TRUE]

\* a deleteEntry that detaches the LRU node and leaves the index alone
deleteEntryLruOnly(sh, key) ==
    IF key \notin DOMAIN sh.entries THEN sh
    ELSE [sh EXCEPT !.lru = LruDelete(@, key)]

deleteEntry(sh, key) ==
    IF key \notin DOMAIN sh.entries THEN sh
    ELSE [sh EXCEPT !.entries = Remove(@, key), !.lru = LruDelete(@, key)]

\* the expiry test with < where the code has <=
IsExpiredAtStrict(entry, t) == entry.expiresAt # 0 /\ entry.expiresAt < t

\* entry.expiresAt && entry.expiresAt <= now
IsExpiredAt(entry, t) == entry.expiresAt # 0 /\ entry.expiresAt <= t

\* get: the shard after the read and the entry returned (<<>> for undefined)
ShardGet(sh, key, t) ==
    IF key \notin DOMAIN sh.entries THEN [shard |-> sh, entry |-> <<>>]
    ELSE IF IsExpiredAt(sh.entries[key], t)
         THEN [shard |-> deleteEntry(sh, key), entry |-> <<>>]
         ELSE [shard |-> [sh EXCEPT !.lru = LruGet(@, key)],
               entry |-> <<sh.entries[key]>>]

createEntry(key, value, ttl, t) ==
    [key |-> key,
     value |-> value,
     type |-> inferValueType(value),
     version |-> 0,
     createdAt |-> t,
     updatedAt |-> t,
     expiresAt |-> IF ttl # 0 THEN t + ttl ELSE 0,
     sizeBytes |-> calculateValueSize(value, inferValueType(value))]

\* what an operation resolves with (status "ok") or rejects with
Reply(status, version, expiresAt, value, flag, details) ==
    [status |-> status, version |-> version, expiresAt |-> expiresAt,
     value |-> value, flag |-> flag, details |-> details]

NoDetails == [none |-> TRUE]

RECURSIVE deleteEvicted(_, _)
deleteEvicted(sh, evicted) ==
    IF evicted = <<>> THEN sh
    ELSE deleteEvicted(deleteEntry(sh, Head(evicted)), Tail(evicted))

\* a ulid() that returns the same token on every call
ulidStuck(ver) == 1

\* ulid(): the token minted when the counter stands at ver
ulid(ver) == ver

\* an increment that starts from 0 whatever the key holds
currentValueForgotten(sh, key) == 0

\* existingEntry ? (existingEntry.value as number) : 0
currentValue(sh, key) ==
    IF key \in DOMAIN sh.entries THEN sh.entries[key].value.num ELSE 0

\* an executeIncrement that stamps createdAt anew on every call
executeIncrementRecreated(sh, key, delta, t, ver) ==
    LET has == key \in DOMAIN sh.entries
    IN IF has /\ sh.entries[key].type # "number"
       THEN [shard |-> sh, ulid |-> ver,
             result |-> Reply("BadRequest", 0, 0, 0, FALSE, NoDetails)]
       ELSE LET newValue == currentValue(sh, key) + delta
                newEntry == [key |-> key, value |-> JsNumber(newValue), type |-> "number",
                             version |-> ulid(ver), createdAt |-> t, updatedAt |-> t,
                             expiresAt |-> 0, sizeBytes |-> NumberSizeBytes]
            IN [shard |-> [sh EXCEPT !.entries = Put(@, key, newEntry),
                                     !.lru = LruSet(@, key, newEntry.sizeBytes)[1]],
                ulid |-> ver + 1,
                result |-> Reply("ok", newEntry.version, 0, newValue, TRUE, NoDetails)]

executeIncrement(sh, key, delta, t, ver) ==
    LET has == key \in DOMAIN sh.entries
        existingEntry == sh.entries[key]
    IN IF has /\ existingEntry.type # "number"
       THEN [shard |-> sh, ulid |-> ver,
             result |-> Reply("BadRequest", 0, 0, 0, FALSE, NoDetails)]
       ELSE LET newValue == currentValue(sh, key) + delta
                newEntry == [key |-> key,
                             value |-> JsNumber(newValue),
                             type |-> "number",
                             version |-> ulid(ver),
                             createdAt |-> IF has THEN existingEntry.createdAt ELSE t,
                             updatedAt |-> t,
                             expiresAt |-> 0,
                             sizeBytes |-> NumberSizeBytes]
            IN [shard |-> [sh EXCEPT !.entries = Put(@, key, newEntry),
                                     !.lru = LruSet(@, key, newEntry.sizeBytes)[1]],
                ulid |-> ver + 1,
                result |-> Reply("ok", newEntry.version, 0, newValue, TRUE, NoDetails)]

\* isExpired ? undefined : existingEntry (<<>> for undefined)
effectiveEntry(sh, key, t) ==
    IF key \in DOMAIN sh.entries /\ ~IsExpiredAt(sh.entries[key], t)
    THEN <<sh.entries[key]>>
    ELSE <<>>

\* the create-only test left out
ifNoneMatchUnchecked(op, effective) == FALSE

\* ifNoneMatch && effectiveEntry
ifNoneMatchFails(op, effective) == op.ifNoneMatch /\ effective # <<>>

\* the version test without its comparison of versions
ifMatchFailsIfAbsent(op, effective) == op.ifMatch # 0 /\ effective = <<>>

\* the version test without its !effectiveEntry arm
ifMatchFailsIfPresent(op, effective) ==
    op.ifMatch # 0 /\ effective # <<>> /\ effective[1].version # op.ifMatch

\* ifMatch && (!effectiveEntry || effectiveEntry.version !== ifMatch)
ifMatchFails(op, effective) ==
    op.ifMatch # 0 /\ (effective = <<>> \/ effective[1].version # op.ifMatch)

executeSet(sh, op, t, ver) ==
    IF "delta" \in DOMAIN op.entry
    THEN executeIncrement(sh, op.key, op.entry.delta, t, ver)
    ELSE
    LET key == op.key
        has == key \in DOMAIN sh.entries
        existingEntry == sh.entries[key]
        effective == effectiveEntry(sh, key, t)
    IN IF ifNoneMatchFails(op, effective)
       THEN [shard |-> sh, ulid |-> ver,
             result |-> Reply("Conflict", 0, 0, 0, FALSE, [key |-> key])]
       ELSE IF ifMatchFails(op, effective)
       THEN [shard |-> sh, ulid |-> ver,
             result |-> Reply("Conflict", 0, 0, 0, FALSE,
                              [key |-> key, expected |-> op.ifMatch,
                               actual |-> IF effective # <<>> THEN effective[1].version
                                          ELSE 0])]
       ELSE IF op.entry.sizeBytes > sh.maxItemBytes
       THEN [shard |-> sh, ulid |-> ver,
             result |-> Reply("PayloadTooLarge", 0, 0, 0, FALSE, NoDetails)]
       ELSE LET newEntry == [op.entry EXCEPT
                                !.version = ulid(ver),
                                !.updatedAt = t,
                                !.createdAt = IF has THEN existingEntry.createdAt ELSE t]
                stored == [sh EXCEPT !.entries = Put(@, key, newEntry)]
                put == LruSet(stored.lru, key, newEntry.sizeBytes)
                swept == deleteEvicted([stored EXCEPT !.lru = put[1]], put[2])
                pushed == IF newEntry.expiresAt # 0
                          THEN [swept EXCEPT !.ttlHeap =
                                   HeapPush(@, [key |-> key,
                                                expiresAt |-> newEntry.expiresAt,
                                                shard |-> sh.shardId])]
                          ELSE swept
            IN [shard |-> pushed, ulid |-> ver + 1,
                result |-> Reply("ok", newEntry.version, newEntry.expiresAt, 0, TRUE,
                                 NoDetails)]

\* an executeDelete without its test of the conditional header
executeDeleteUnconditional(sh, op, ver) ==
    IF op.key \notin DOMAIN sh.entries
    THEN [shard |-> sh, ulid |-> ver, result |-> Reply("ok", 0, 0, 0, FALSE, NoDetails)]
    ELSE [shard |-> deleteEntry(sh, op.key), ulid |-> ver,
          result |-> Reply("ok", 0, 0, 0, TRUE, NoDetails)]

executeDelete(sh, op, ver) ==
    LET key == op.key
        has == key \in DOMAIN sh.entries
    IN IF ~has
       THEN [shard |-> sh, ulid |-> ver, result |-> Reply("ok", 0, 0, 0, FALSE, NoDetails)]
       ELSE IF op.ifMatch # 0 /\ sh.entries[key].version # op.ifMatch
       THEN [shard |-> sh, ulid |-> ver,
             result |-> Reply("Conflict", 0, 0, 0, FALSE,
                              [key |-> key, expected |-> op.ifMatch,
                               actual |-> sh.entries[key].version])]
       ELSE [shard |-> deleteEntry(sh, key), ulid |-> ver,
             result |-> Reply("ok", 0, 0, 0, TRUE, NoDetails)]

executeExpire(sh, op, ver) ==
    [shard |-> deleteEntry(sh, op.key), ulid |-> ver,
     result |-> Reply("ok", 0, 0, 0, op.key \in DOMAIN sh.entries, NoDetails)]

executeOperation(sh, op, t, ver) ==
    CASE op.type = "set" -> executeSet(sh, op, t, ver)
      [] op.type = "delete" -> executeDelete(sh, op, ver)
      [] op.type = "expire" -> executeExpire(sh, op, ver)

\* a dispatcher that returns after its first operation instead of looping
RunDispatcherOnce(sh, t, ver) ==
    IF sh.operationQueue = <<>> \/ sh.awaiting # <<>>
    THEN [shard |-> [sh EXCEPT !.isProcessing = FALSE, !.awaiting = <<>>], ulid |-> ver]
    ELSE LET operation == Head(sh.operationQueue)
             ex == executeOperation([sh EXCEPT !.operationQueue = Tail(@)],
                                    operation, t, ver)
         IN [shard |-> [ex.shard EXCEPT !.awaiting =
                           <<[op |-> operation, result |-> ex.result,
                              pre |-> Lookup(sh.entries, operation.key), at |-> t]>>],
             ulid |-> ex.ulid]

\* processOperations from the head of its loop to the next await, or to its exit
RunDispatcher(sh, t, ver) ==
    IF sh.operationQueue = <<>>
    THEN [shard |-> [sh EXCEPT !.isProcessing = FALSE, !.awaiting = <<>>], ulid |-> ver]
    ELSE LET operation == Head(sh.operationQueue)
             ex == executeOperation([sh EXCEPT !.operationQueue = Tail(@)],
                                    operation, t, ver)
         IN [shard |-> [ex.shard EXCEPT !.awaiting =
                           <<[op |-> operation, result |-> ex.result,
                              pre |-> Lookup(sh.entries, operation.key), at |-> t]>>],
             ulid |-> ex.ulid]

processOperations(sh, t, ver) ==
    IF sh.isProcessing THEN [shard |-> sh, ulid |-> ver]
    ELSE RunDispatcher([sh EXCEPT !.isProcessing = TRUE], t, ver)

\* a mailbox check that refuses only above maxMailboxSize
MailboxFullLate(sh) == Len(sh.operationQueue) > MaxShardMailbox

MailboxFull(sh) == Len(sh.operationQueue) >= MaxShardMailbox

\* an enqueueOperation that puts the operation at the head of the mailbox
enqueueOperationFirst(sh, op, t, ver) ==
    processOperations([sh EXCEPT !.operationQueue = <<op>> \o @], t, ver)

\* enqueueOperation on a mailbox that is not full
enqueueOperation(sh, op, t, ver) ==
    processOperations([sh EXCEPT !.operationQueue = Append(@, op)], t, ver)

Operation(type, key, entry, ifMatch, ifNoneMatch, caller) ==
    [type |-> type, key |-> key, entry |-> entry, ifMatch |-> ifMatch,
     ifNoneMatch |-> ifNoneMatch, caller |-> caller]

NoEntry == [none |-> TRUE]

\* who awaits the reply: the public call, and the item of a batch call
Caller(call, item) == [call |-> call, item |-> item]

\* processExpirations: pop the expired records, enqueue an expire for each key
\* that entries still has
RECURSIVE enqueueExpired(_, _, _, _)
enqueueExpired(sh, expired, t, ver) ==
    IF expired = <<>> THEN sh
    ELSE IF Head(expired).key \in DOMAIN sh.entries /\ ~MailboxFull(sh)
         THEN enqueueExpired(
                  enqueueOperation(sh, Operation("expire", Head(expired).key, NoEntry,
                                                 0, FALSE, Caller(0, 0)),
                                   t, ver).shard,
                  Tail(expired), t, ver)
         ELSE enqueueExpired(sh, Tail(expired), t, ver)

\* processExpirations (the pair popExpired returns is bound as a value, so
\* that it is computed once)
processExpirations(sh, t, ver) ==
    CHOOSE after \in
        { enqueueExpired([sh EXCEPT !.ttlHeap = popped[1]], popped[2], t, ver) :
            popped \in {popExpired(sh.ttlHeap, t, <<>>)} } : TRUE

(***************************************************************************)
(* State.                                                                  *)
(*   shards    the store's shards, by shard id                             *)
(*   now       Date.now()                                                  *)
(*   nextUlid  the ulid counter                                            *)
(*   calls     the number of public mutating calls made so far             *)
(*   lastRead  what the get or batchGet of the latest step returned: the   *)
(*             keys asked for, the hits, the misses, the time, and (for a  *)
(*             get) what `written` held for the shard; empty after any     *)
(*             other step                                                  *)
(*   batch     the batch call in flight or last returned                   *)
(*   currentInflight, maxInflight   the store's in-flight counter and cap  *)
(*   thrown    the error the public call of the latest step threw before   *)
(*             anything was enqueued; NoError after any other step         *)
(* History kept for the properties (none of it is read by the engine):     *)
(*   written   per shard, the set that executed last with no mutation      *)
(*             executed after it                                           *)
(*   casWins   per <<key, version>>, how many sets carrying that version   *)
(*             as ifMatch have succeeded                                   *)
(*   run       per key, the increments executed since anything else last   *)
(*             changed the key's entry                                     *)
(*   burst     the tally of a burst of concurrent conditional sets: the    *)
(*             version they present, how many were issued, how they      *)
(*             ended, the winner's value, and the key's entry when the   *)
(*             last of them had been answered                            *)
(*   creates   per key, the create-only sets executed since the key was    *)
(*             last absent                                                 *)
(*   deleted   per shard, the key of the delete that executed last, while  *)
(*             nothing has touched the shard's entries, LRU or heap since  *)
(*   budgetBytes   the budget the store was built with (0 for none)        *)
(*   lastPut   the set that the latest step made on the standalone LRU:    *)
(*             its key, its size, the LRU before it and what it returned;  *)
(*             NoPut after any other step                                  *)
(*   stats     per shard, its counters (this.stats), kept by the            *)
(*             specifications that observe them                            *)
(*   minheap   the MinHeap under unit test: its array, the records pushed   *)
(*             and not popped, the records popped since the last push, and *)
(*             the last call with the array before it and its result       *)
(*   boundary  the backpressure middleware: its activeRequests counter, the *)
(*             admitted responses neither finished nor closed (inflight),  *)
(*             those finished and not yet closed, and the requests seen    *)
(*   lineage   per key, the time of the first successful write, the latest  *)
(*             updatedAt stored and the versions installed so far          *)
(*   admitted  per shard, the mutation of the latest public call that the  *)
(*             shard admitted                                              *)
(*   touched   the access order, least recently touched key first, of the  *)
(*             LRU under unit test and of each shard: the keys put or read *)
(*             and not deleted since                                       *)
(* The LRU class on its own, as its unit tests drive it:                   *)
(*   lru       the instance under test, <<>> while none has been built     *)
(***************************************************************************)
VARIABLES shards, now, nextUlid, calls, lastRead, batch,
          currentInflight, maxInflight, thrown,
          written, casWins, run, burst, creates, deleted, lru, touched, budgetBytes, admitted, lastPut, stats, lineage, boundary, minheap

vars == <<shards, now, nextUlid, calls, lastRead, batch,
          currentInflight, maxInflight, thrown,
          written, casWins, run, burst, creates, deleted, lru, touched, budgetBytes, admitted, lastPut, stats, lineage, boundary, minheap>>

\* new CacheStore(numShards, maxItemBytes, memoryBudgetBytes, ...): the shards
CacheStore(maxItemBytes, memoryBudgetBytes) ==
    LET perShardMemoryBudget ==
            IF memoryBudgetBytes # 0 THEN memoryBudgetBytes \div NumShards ELSE 0
    IN [s \in Shards |-> CacheShard(s, maxItemBytes, perShardMemoryBudget)]

\* an error a public call throws: its message, whether it is one of the
\* CacheError classes, and its statusCode and retryAfter properties (<<>>
\* when the error has none)
NoError == [message |-> "", cacheError |-> FALSE, statusCode |-> <<>>, retryAfter |-> <<>>]

\* checkBackpressure: new Error('Service overloaded') with statusCode 503 and
\* retryAfter 0
ServiceOverloaded ==
    [message |-> "Service overloaded", cacheError |-> FALSE, statusCode |-> <<503>>,
     retryAfter |-> <<0>>]

\* enqueueOperation: new Error('Shard mailbox full')
ShardMailboxFull ==
    [message |-> "Shard mailbox full", cacheError |-> FALSE, statusCode |-> <<>>,
     retryAfter |-> <<>>]

\* createEntry: new BadRequestError(...) on a value that fails validation
InvalidValue ==
    [message |-> "Invalid value", cacheError |-> TRUE, statusCode |-> <<400>>,
     retryAfter |-> <<>>]

\* the test of checkBackpressure with > where the code has >=
BackpressureAbove == currentInflight > maxInflight

\* checkBackpressure throws
Backpressure == currentInflight >= maxInflight

NoPut == [key |-> <<>>, sizeBytes |-> 0, before |-> <<>>, evicted |-> <<>>]

\* this.stats as the constructor leaves it (entries and memoryBytes are read
\* from the index and the LRU by getStats)
ShardStats ==
    [hits |-> 0, misses |-> 0, sets |-> 0, deletes |-> 0, evictions |-> 0,
     expirations |-> 0]

\* new MinHeap(): private heap: HeapEntry[] = []
NoHeap == [heap |-> <<>>, held |-> {}, run |-> <<>>, pushes |-> 0,
           last |-> [op |-> "new", before |-> <<>>, at |-> 0, result |-> <<>>]]

\* backpressureMiddleware(maxInflight): let activeRequests = 0
NoRequests == [activeRequests |-> 0, inflight |-> 0, finished |-> 0, seen |-> 0]

NoLineage == [first |-> 0, updated |-> 0, versions |-> {}]

NoBatch ==
    [kind |-> "none", items |-> <<>>, results |-> <<>>, pending |-> 0,
     returned |-> FALSE, response |-> <<>>]

NoRead ==
    [kind |-> "none", keys |-> <<>>, hits |-> <<>>, misses |-> <<>>, at |-> 0,
     after |-> <<>>]

NoRun == [active |-> FALSE, base |-> 0, sum |-> 0, last |-> 0, ordered |-> TRUE]

NoBurst ==
    [version |-> 0, issued |-> 0, ok |-> 0, conflict |-> 0, other |-> 0,
     winner |-> <<>>, clean |-> TRUE, done |-> FALSE, stored |-> <<>>]

NoCreates ==
    [active |-> FALSE, value |-> JsNull, firstOk |-> FALSE, laterOk |-> 0,
     clean |-> TRUE]

\* a store built with a memory budget, an item ceiling and an in-flight cap
\* drawn from the given sets
InitStore(budgets, ceilings, caps) ==
    /\ \E b \in budgets, m \in ceilings :
          shards = CacheStore(m, b) /\ budgetBytes = b
    /\ maxInflight \in caps
    /\ currentInflight = 0
    /\ thrown = NoError
    /\ now = 1
    /\ nextUlid = 1
    /\ calls = 0
    /\ lastRead = NoRead
    /\ batch = NoBatch
    /\ written = [s \in Shards |-> <<>>]
    /\ casWins = EmptyMap
    /\ run = [k \in Keys |-> NoRun]
    /\ burst = NoBurst
    /\ creates = [k \in Keys |-> NoCreates]
    /\ deleted = [s \in Shards |-> <<>>]
    /\ lru = <<>>
    /\ touched = [lru |-> <<>>, shards |-> [s \in Shards |-> <<>>]]
    /\ admitted = [s \in Shards |-> <<>>]
    /\ lastPut = NoPut
    /\ stats = [s \in Shards |-> ShardStats]
    /\ lineage = [k \in Keys |-> NoLineage]
    /\ boundary = NoRequests
    /\ minheap = NoHeap

InitWith(budgets) == InitStore(budgets, {MaxItemBytes}, {DefaultMaxInflight})

ShardOf(key) == getShardForKey(key, NumShards)

\* the clock advances
Tick ==
    /\ now < MaxTime
    /\ now' = now + 1
    /\ lastRead' = NoRead /\ thrown' = NoError
    /\ UNCHANGED <<shards, nextUlid, calls, batch, currentInflight, maxInflight>>

\* errorHandler: the response the boundary sends for an error a route handler
\* passed to next(): its status, its Retry-After header (<<>> when not set)
\* and the reason recorded in the backpressure counter (<<>> when none is).
\* The 503 branch sends error.retryAfter || '1'
errorHandler(error) ==
    IF error.cacheError
    THEN [status |-> error.statusCode[1], retryAfter |-> <<>>, backpressure |-> <<>>]
    ELSE IF error.statusCode = <<503>>
    THEN [status |-> 503,
          retryAfter |-> IF error.retryAfter # <<>> /\ error.retryAfter[1] # 0
                         THEN error.retryAfter ELSE <<1>>,
          backpressure |-> <<"service_overloaded">>]
    ELSE IF error.message = "Request timeout"
    THEN [status |-> 408, retryAfter |-> <<>>, backpressure |-> <<>>]
    ELSE [status |-> 500, retryAfter |-> <<>>, backpressure |-> <<>>]

\* backpressureMiddleware with activeRequests requests active: the response it
\* sends when at capacity, <<>> when it passes the request on
backpressureMiddleware(activeRequests, cap) ==
    IF activeRequests >= cap
    THEN <<[status |-> 503, retryAfter |-> <<0>>,
            backpressure |-> <<"max_inflight_exceeded">>]>>
    ELSE <<>>

\* a public call refused by checkBackpressure: nothing changes but the error
\* it throws
Refused ==
    /\ thrown' = ServiceOverloaded
    /\ lastRead' = NoRead
    /\ UNCHANGED <<shards, now, nextUlid, batch, currentInflight, maxInflight>>

\* store.get(key): the read fast path of the owning shard; the in-flight
\* counter is incremented and decremented within the call
Get(key) ==
    LET s == ShardOf(key)
        r == ShardGet(shards[s], key, now)
    IN IF Backpressure THEN Refused /\ UNCHANGED calls
       ELSE /\ shards' = [shards EXCEPT ![s] = r.shard]
            /\ lastRead' = [kind |-> "get", keys |-> <<key>>, hits |-> r.entry,
                            misses |-> IF r.entry = <<>> THEN <<key>> ELSE <<>>,
                            at |-> now, after |-> written[s]]
            /\ thrown' = NoError
            /\ UNCHANGED <<now, nextUlid, calls, batch, currentInflight, maxInflight>>

\* a public mutating call that hands `op` to the owning shard and stays in
\* flight until the reply is delivered; a call whose mailbox is full is
\* rejected at once, leaves the shard as it is and has left the in-flight
\* count when its rejection is observed
Submit(op) ==
    LET s == ShardOf(op.key)
        r == enqueueOperation(shards[s], op, now, nextUlid)
    IN /\ calls < MaxCalls
       /\ calls' = calls + 1
       /\ IF Backpressure THEN Refused
          ELSE /\ IF MailboxFull(shards[s])
                  THEN /\ thrown' = ShardMailboxFull
                       /\ UNCHANGED <<shards, nextUlid, currentInflight>>
                  ELSE /\ shards' = [shards EXCEPT ![s] = r.shard]
                       /\ nextUlid' = r.ulid
                       /\ currentInflight' = currentInflight + 1
                       /\ thrown' = NoError
               /\ lastRead' = NoRead /\ UNCHANGED <<now, batch, maxInflight>>

\* store.set(key, value, ttlSec, ifMatch, ifNoneMatch); createEntry throws
\* BadRequest on a value that fails validation, before anything is enqueued
Set(key, value, ttl, ifMatch, ifNoneMatch) ==
    IF validateValueType(value, inferValueType(value))
    THEN Submit(Operation("set", key, createEntry(key, value, ttl, now),
                          ifMatch, ifNoneMatch, Caller(calls + 1, 0)))
    ELSE /\ calls < MaxCalls
         /\ calls' = calls + 1
         /\ IF Backpressure THEN Refused
            ELSE /\ thrown' = InvalidValue
                 /\ lastRead' = NoRead
                 /\ UNCHANGED <<shards, now, nextUlid, batch, currentInflight,
                                maxInflight>>

\* store.increment(key, delta)
Increment(key, delta) ==
    Submit(Operation("set", key, [delta |-> delta], 0, FALSE, Caller(calls + 1, 0)))

\* store.delete(key, ifMatch)
Delete(key, ifMatch) ==
    Submit(Operation("delete", key, NoEntry, ifMatch, FALSE, Caller(calls + 1, 0)))

\* the result a batch call records for a settled item
BatchResult(kind, key, reply, fresh) ==
    [key |-> key,
     status |-> IF reply.status # "ok" THEN "error"
                ELSE IF kind = "set" THEN "created"
                ELSE IF reply.flag THEN "deleted" ELSE "missing",
     version |-> reply.version,
     fresh |-> fresh]

\* the reply of the awaited operation reaches its caller
Deliver(b, aw) ==
    IF aw.op.caller.item = 0 THEN b
    ELSE [b EXCEPT !.results =
             Append(@, BatchResult(b.kind, aw.op.key, aw.result,
                                   aw.pre = <<>> \/ IsExpiredAt(aw.pre[1], aw.at))),
                   !.pending = @ - 1]

\* the reply answers a single-key public call, whose finally block then
\* decrements the in-flight counter
Completes(aw) == aw.op.caller.call # 0 /\ aw.op.caller.item = 0

\* the dispatcher of shard s resumes after its await: it delivers the reply of
\* the operation it executed, then executes the next one or stops
Dispatch(s) ==
    LET r == RunDispatcher(shards[s], now, nextUlid)
    IN /\ shards[s].isProcessing
       /\ shards' = [shards EXCEPT ![s] = r.shard]
       /\ nextUlid' = r.ulid
       /\ batch' = Deliver(batch, shards[s].awaiting[1])
       /\ currentInflight' = IF Completes(shards[s].awaiting[1])
                              THEN currentInflight - 1 ELSE currentInflight
       /\ lastRead' = NoRead /\ thrown' = NoError
       /\ UNCHANGED <<now, calls, maxInflight>>

\* the sweeper's timer fires on shard s; timers run only when no dispatcher
\* has a continuation pending
Sweep(s) ==
    /\ shards[s].expirationTimer
    /\ \A x \in Shards : ~shards[x].isProcessing
    /\ shards[s].ttlHeap # <<>>
    /\ shards' = [shards EXCEPT ![s] = processExpirations(@, now, nextUlid)]
    /\ lastRead' = NoRead /\ thrown' = NoError
    /\ UNCHANGED <<now, nextUlid, calls, batch, currentInflight, maxInflight>>

\* CacheShard.shutdown: the sweeper's interval is cleared
ShardShutdown(sh) == [sh EXCEPT !.expirationTimer = FALSE]

\* CacheStore.shutdown
Shutdown ==
    /\ shards' = [s \in Shards |-> ShardShutdown(shards[s])]
    /\ lastRead' = NoRead /\ thrown' = NoError
    /\ UNCHANGED <<now, nextUlid, calls, batch, currentInflight, maxInflight>>

(***************************************************************************)
(* Batch calls.  An item is [key, value, ttl] (batchSet) or [key]          *)
(* (batchDelete, with value and ttl unused).                               *)
(***************************************************************************)
Item(key, value, ttl) == [key |-> key, value |-> value, ttl |-> ttl]

\* the shard ids of the items, in order of first appearance (the insertion
\* order of the Map that groups the items)
RECURSIVE ShardOrder(_, _)
ShardOrder(items, seen) ==
    IF items = <<>> THEN seen
    ELSE ShardOrder(Tail(items),
                    IF ShardOf(Head(items).key) \in Range(seen) THEN seen
                    ELSE Append(seen, ShardOf(Head(items).key)))

\* the positions of the items in the order in which the fan-out visits them
RECURSIVE VisitOrder(_, _)
VisitOrder(items, shardIds) ==
    IF shardIds = <<>> THEN <<>>
    ELSE SelectSeq([i \in 1..Len(items) |-> i],
                   LAMBDA i : ShardOf(items[i].key) = Head(shardIds))
         \o VisitOrder(items, Tail(shardIds))

\* the fan-out loop: one shard.set / shard.delete per visited item.  st is
\* [shards, ulid, results, pending]; an item the shard refuses at once
\* (validation, mailbox full) settles with an error
RECURSIVE FanOut(_, _, _, _, _, _)
FanOut(st, kind, items, order, call, t) ==
    IF order = <<>> THEN st
    ELSE LET i == Head(order)
             item == items[i]
             s == ShardOf(item.key)
             op == IF kind = "set"
                   THEN Operation("set", item.key,
                                  createEntry(item.key, item.value, item.ttl, t),
                                  0, FALSE, Caller(call, i))
                   ELSE Operation("delete", item.key, NoEntry, 0, FALSE, Caller(call, i))
             refused == (kind = "set"
                         /\ ~validateValueType(item.value, inferValueType(item.value)))
                        \/ MailboxFull(st.shards[s])
             r == enqueueOperation(st.shards[s], op, t, st.ulid)
             next == IF refused
                     THEN [st EXCEPT !.results =
                              Append(@, [key |-> item.key, status |-> "error",
                                         version |-> 0, fresh |-> FALSE])]
                     ELSE [st EXCEPT !.shards[s] = r.shard,
                                     !.ulid = r.ulid,
                                     !.pending = @ + 1]
         IN FanOut(next, kind, items, Tail(order), call, t)

\* store.batchSet / store.batchDelete up to the await of Promise.all
BatchCall(kind, items) ==
    LET st == FanOut([shards |-> shards, ulid |-> nextUlid, results |-> <<>>,
                      pending |-> 0],
                     kind, items, VisitOrder(items, ShardOrder(items, <<>>)),
                     calls + 1, now)
    IN /\ calls < MaxCalls
       /\ batch.kind = "none" \/ batch.returned
       /\ calls' = calls + 1
       /\ IF Backpressure THEN Refused
          ELSE /\ shards' = st.shards
               /\ nextUlid' = st.ulid
               /\ batch' = [kind |-> kind, items |-> items, results |-> st.results,
                            pending |-> st.pending, returned |-> FALSE,
                            response |-> <<>>]
               /\ currentInflight' = currentInflight + 1
               /\ lastRead' = NoRead /\ thrown' = NoError
               /\ UNCHANGED <<now, maxInflight>>

BatchSet(items) == BatchCall("set", items)

BatchDelete(items) == BatchCall("delete", items)

\* new Map(items.map((item, index) => [item.key, index])).get(key) || 0:
\* a later pair replaces an earlier one with the same key
keyOrder(items, key) ==
    LET at == {i \in 1..Len(items) : items[i].key = key}
    IN IF at = {} THEN 0 ELSE (CHOOSE i \in at : \A j \in at : j <= i) - 1

\* results.sort((a, b) => keyOrder(a) - keyOrder(b)); the sort is stable
RECURSIVE SortFrom(_, _, _)
SortFrom(results, items, index) ==
    IF index >= Len(items) THEN <<>>
    ELSE SelectSeq(results, LAMBDA r : keyOrder(items, r.key) = index)
         \o SortFrom(results, items, index + 1)

sortResults(results, items) == SortFrom(results, items, 0)

\* Promise.all has settled: the batch call sorts its results and returns
BatchReturn ==
    /\ batch.kind # "none"
    /\ ~batch.returned
    /\ batch.pending = 0
    /\ batch' = [batch EXCEPT !.returned = TRUE,
                              !.response = sortResults(batch.results, batch.items)]
    /\ currentInflight' = currentInflight - 1
    /\ lastRead' = NoRead /\ thrown' = NoError
    /\ UNCHANGED <<shards, now, nextUlid, calls, maxInflight>>

(***************************************************************************)
(* store.batchGet(keys): the keys grouped by shard, each read through the  *)
(* shard's get.  A hit carries key, value, type and version; expiresAt is  *)
(* kept beside it for the properties.                                      *)
(***************************************************************************)
\* the loop of batchGet without its else branch: a key that misses is dropped
RECURSIVE ReadAllHitsOnly(_, _, _, _)
ReadAllHitsOnly(st, keys, order, t) ==
    IF order = <<>> THEN st
    ELSE LET key == keys[Head(order)].key
             s == ShardOf(key)
             r == ShardGet(st.shards[s], key, t)
             next == IF r.entry # <<>>
                     THEN [st EXCEPT !.shards[s] = r.shard,
                                     !.hits = Append(@, [key |-> key,
                                                         value |-> r.entry[1].value,
                                                         type |-> r.entry[1].type,
                                                         version |-> r.entry[1].version,
                                                         expiresAt |-> r.entry[1].expiresAt])]
                     ELSE [st EXCEPT !.shards[s] = r.shard]
         IN ReadAllHitsOnly(next, keys, Tail(order), t)

RECURSIVE ReadAll(_, _, _, _)
ReadAll(st, keys, order, t) ==
    IF order = <<>> THEN st
    ELSE LET key == keys[Head(order)].key
             s == ShardOf(key)
             r == ShardGet(st.shards[s], key, t)
             next == IF r.entry # <<>>
                     THEN [st EXCEPT !.shards[s] = r.shard,
                                     !.hits = Append(@, [key |-> key,
                                                         value |-> r.entry[1].value,
                                                         type |-> r.entry[1].type,
                                                         version |-> r.entry[1].version,
                                                         expiresAt |-> r.entry[1].expiresAt])]
                     ELSE [st EXCEPT !.shards[s] = r.shard,
                                     !.misses = Append(@, key)]
         IN ReadAll(next, keys, Tail(order), t)

BatchGet(keys) ==
    LET items == [i \in 1..Len(keys) |-> Item(keys[i], JsNull, 0)]
        st == ReadAll([shards |-> shards, hits |-> <<>>, misses |-> <<>>], items,
                      VisitOrder(items, ShardOrder(items, <<>>)), now)
    IN IF Backpressure THEN Refused /\ UNCHANGED calls
       ELSE /\ shards' = st.shards
            /\ lastRead' = [kind |-> "batchGet", keys |-> keys, hits |-> st.hits,
                            misses |-> st.misses, at |-> now, after |-> <<>>]
            /\ thrown' = NoError
            /\ UNCHANGED <<now, nextUlid, calls, batch, currentInflight, maxInflight>>

(***************************************************************************)
(* History.  In a step, shard s has executed an operation when its         *)
(* awaiting slot holds a new record.                                       *)
(***************************************************************************)
ExecutedOn(s) ==
    /\ shards'[s].awaiting # <<>>
    /\ shards'[s].awaiting # shards[s].awaiting

IsPlainSet(op) == op.type = "set" /\ "delta" \notin DOMAIN op.entry
IsIncrement(op) == op.type = "set" /\ "delta" \in DOMAIN op.entry

\* written: a successful set replaces it, any other mutation that took
\* effect clears it, a rejected operation leaves it
TrackWritten ==
    written' = [s \in Shards |->
        IF ~ExecutedOn(s) THEN written[s]
        ELSE LET aw == shards'[s].awaiting[1] IN
             IF aw.result.status # "ok" THEN written[s]
             ELSE IF IsPlainSet(aw.op)
                  THEN <<[key |-> aw.op.key, value |-> aw.op.entry.value,
                          expiresAt |-> aw.op.entry.expiresAt,
                          sizeBytes |-> aw.op.entry.sizeBytes]>>
                  ELSE <<>>]

\* casWins: count the successful sets that carried an ifMatch
TrackCasWins ==
    casWins' =
        IF \E s \in Shards : ExecutedOn(s)
        THEN LET s == CHOOSE x \in Shards : ExecutedOn(x)
                 aw == shards'[s].awaiting[1]
                 token == <<aw.op.key, aw.op.ifMatch>>
             IN IF IsPlainSet(aw.op) /\ aw.op.ifMatch # 0 /\ aw.result.status = "ok"
                THEN Put(casWins, token,
                         IF token \in DOMAIN casWins THEN casWins[token] + 1 ELSE 1)
                ELSE casWins
        ELSE casWins

\* run: an executed increment opens or extends the key's run; any other
\* change of the key's entry (set, delete, expiry, eviction) ends it
TrackRun ==
    run' = [k \in Keys |->
        LET s == ShardOf(k)
            incremented == /\ ExecutedOn(s)
                           /\ IsIncrement(shards'[s].awaiting[1].op)
                           /\ shards'[s].awaiting[1].op.key = k
                           /\ shards'[s].awaiting[1].result.status = "ok"
            aw == shards'[s].awaiting[1]
        IN IF incremented
           THEN IF run[k].active
                THEN [run[k] EXCEPT !.sum = @ + aw.op.entry.delta,
                                    !.last = aw.op.caller.call,
                                    !.ordered = @ /\ aw.op.caller.call > run[k].last]
                ELSE [active |-> TRUE,
                      base |-> IF aw.pre = <<>> THEN 0 ELSE aw.pre[1].value.num,
                      sum |-> aw.op.entry.delta,
                      last |-> aw.op.caller.call,
                      ordered |-> TRUE]
           ELSE IF Lookup(shards'[s].entries, k) # Lookup(shards[s].entries, k)
                THEN NoRun
                ELSE run[k]]

\* the entry an executed operation found was missing or expired
FoundAbsent(aw) ==
    \/ aw.pre = <<>>
    \/ aw.pre[1].expiresAt # 0 /\ aw.pre[1].expiresAt <= aw.at

\* creates: a create-only set on an absent key opens the key's sequence, later
\* create-only sets extend it, a delete or expire that removes the entry (or
\* the entry's expiry) ends it, any other successful write taints it
TrackCreates ==
    creates' = [k \in Keys |->
        LET s == ShardOf(k)
            aw == shards'[s].awaiting[1]
            ok == aw.result.status = "ok"
            plain == aw.op.ifMatch = 0 /\ aw.op.entry.sizeBytes <= MaxItemBytes
        IN IF ~(ExecutedOn(s) /\ aw.op.key = k) THEN creates[k]
           ELSE IF IsPlainSet(aw.op) /\ aw.op.ifNoneMatch
           THEN IF creates[k].active /\ ~(aw.pre # <<>> /\ FoundAbsent(aw))
                THEN [creates[k] EXCEPT !.laterOk = @ + (IF ok THEN 1 ELSE 0),
                                        !.clean = @ /\ plain]
                ELSE IF FoundAbsent(aw)
                THEN [active |-> TRUE, value |-> aw.op.entry.value, firstOk |-> ok,
                      laterOk |-> 0, clean |-> plain]
                ELSE NoCreates
           ELSE IF aw.op.type \in {"delete", "expire"} /\ aw.result.flag
           THEN NoCreates
           ELSE IF ok THEN [creates[k] EXCEPT !.clean = FALSE]
           ELSE creates[k]]

\* deleted: an executed delete that was not rejected records its key; any
\* other executed operation, and any other change of the shard's entries, LRU
\* or TTL heap, clears it
TrackDeleted ==
    deleted' = [s \in Shards |->
        IF ExecutedOn(s)
        THEN LET aw == shards'[s].awaiting[1]
             IN IF aw.op.type = "delete" /\ aw.result.status = "ok"
                THEN <<aw.op.key>> ELSE <<>>
        ELSE IF \/ shards'[s].entries # shards[s].entries
                \/ shards'[s].lru # shards[s].lru
                \/ shards'[s].ttlHeap # shards[s].ttlHeap
             THEN <<>>
             ELSE deleted[s]]

(***************************************************************************)
(* Inputs.                                                                 *)
(***************************************************************************)
TextX == JsString(<<120>>)
TextY == JsString(<<121>>)
Number5 == JsNumber(5)
Oversize == JsString([i \in 1..(MaxItemBytes + 1) |-> 120])

Versions == 1..MaxCalls

(***************************************************************************)
(* Spec: one shard's keys under gets, sets, increments, deletes, the       *)
(* sweeper and the clock, for a store without a memory budget, with a      *)
(* budget smaller than a number entry and with one that holds some entries *)
(* but not all.                                                            *)
(***************************************************************************)
Budgets == {0, 2 * NumShards, 10 * NumShards}

Init == InitWith(Budgets)

\* the value and TTL of a set: a string with and without a TTL of 1 ms, and a
\* number
Writes == {Item(<<>>, TextX, 0), Item(<<>>, TextX, 1), Item(<<>>, Number5, 0)}

\* a step of the engine together with the history it leaves
Observed(A) ==
    /\ A
    /\ TrackWritten
    /\ UNCHANGED <<casWins, run, burst, creates, deleted, lru, touched, budgetBytes, admitted, lastPut, stats, lineage, boundary, minheap>>

\* a public mutating call of Spec
Call(A) == calls < MaxTraffic /\ Observed(A)

Next ==
    \/ Observed(Tick)
    \/ \E k \in {KeyA, KeyC} : Observed(Get(k))
    \/ Observed(BatchGet(<<KeyC, KeyA>>))
    \/ \E k \in {KeyA, KeyC}, w \in Writes : Call(Set(k, w.value, w.ttl, 0, FALSE))
    \/ \E k \in {KeyA, KeyC} : Call(Increment(k, 2))
    \/ \E k \in {KeyA, KeyC} : Call(Delete(k, 0))
    \/ \E s \in Shards : Observed(Dispatch(s))
    \/ \E s \in Shards : Observed(Sweep(s))

Spec == Init /\ [][Next]_vars

(***************************************************************************)
(* Properties of Spec.  Its calls pass no TTL or a positive one.           *)
(***************************************************************************)
\* the latest step was a get of the key that the shard's latest mutation, a
\* successful set, wrote
ReadsOwnWrite ==
    /\ lastRead.kind = "get"
    /\ lastRead.after # <<>>
    /\ lastRead.after[1].key = lastRead.keys[1]

WriteExpired == lastRead.after[1].expiresAt # 0 /\ lastRead.after[1].expiresAt <= lastRead.at

ReadReturnsWrite ==
    /\ lastRead.hits # <<>>
    /\ lastRead.hits[1].value = lastRead.after[1].value
    /\ lastRead.hits[1].type = inferValueType(lastRead.after[1].value)

WriteFits ==
    ~Exceeds(lastRead.after[1].sizeBytes,
             shards[ShardOf(lastRead.after[1].key)].lru.maxSizeBytes)

\* C1 as stated: a get that follows a successful set(k, v) with no mutation
\* of the shard in between returns v with the type inferred for v, or
\* nothing when the entry has expired; under every byte budget
C1_ReadYourWrites ==
    ReadsOwnWrite => ReadReturnsWrite \/ (lastRead.hits = <<>> /\ WriteExpired)

\* C1 amended: the same, for a value whose size is within the shard's byte
\* budget (or with no budget); a value larger than the budget is evicted by
\* its own set, and the get returns nothing
C1_ReadYourWritesWithinBudget ==
    ReadsOwnWrite =>
        IF WriteFits
        THEN ReadReturnsWrite \/ (lastRead.hits = <<>> /\ WriteExpired)
        ELSE lastRead.hits = <<>>

\* a get returns the number that the set before it wrote, once the set has
\* returned, on a shard whose byte budget holds it
C1_Witness ==
    /\ ReadsOwnWrite
    /\ ReadReturnsWrite
    /\ shards[ShardOf(lastRead.keys[1])].lru.maxSizeBytes # Infinity
    /\ ~shards[ShardOf(lastRead.keys[1])].isProcessing
    /\ lastRead.after[1].sizeBytes = NumberSizeBytes

\* C2: a get or batchGet never returns an entry whose expiresAt is set and
\* is <= the time of the read, and every key asked for is a hit or a miss
C2_NoExpiredReads ==
    /\ \A i \in 1..Len(lastRead.hits) :
          ~(lastRead.hits[i].expiresAt # 0 /\ lastRead.hits[i].expiresAt <= lastRead.at)
    /\ Range(lastRead.keys)
         = {lastRead.hits[i].key : i \in 1..Len(lastRead.hits)} \cup Range(lastRead.misses)

\* a read misses a key at the very millisecond of its expiry, while the key's
\* record is still in the TTL heap (the sweeper has not run)
C2_Witness ==
    /\ lastRead.kind # "none"
    /\ \E i \in 1..Len(lastRead.misses) :
          LET heap == shards[ShardOf(lastRead.misses[i])].ttlHeap
          IN \E j \in 1..Len(heap) : /\ heap[j].key = lastRead.misses[i]
                                      /\ heap[j].expiresAt = lastRead.at

\* C3: on every shard the keys of entries are the keys of the LRU, each LRU
\* node carries its entry's sizeBytes, |entries| is the LRU's size and the
\* sum of sizeBytes over entries is the LRU's byte total
C3_IndexLruConsistency ==
    \A s \in Shards :
        LET sh == shards[s]
            nodes == sh.lru.nodes
        IN /\ {nodes[i].key : i \in 1..Len(nodes)} = DOMAIN sh.entries
           /\ \A i \in 1..Len(nodes) :
                 nodes[i].key \in DOMAIN sh.entries
                    => nodes[i].sizeBytes = sh.entries[nodes[i].key].sizeBytes
           /\ Cardinality(DOMAIN sh.entries) = sh.lru.size
           /\ SumSeq([i \in 1..Len(nodes) |->
                        IF nodes[i].key \in DOMAIN sh.entries
                        THEN sh.entries[nodes[i].key].sizeBytes ELSE 0])
                = sh.lru.currentSizeBytes

(***************************************************************************)
(* SpecCAS: one key of a store without a byte budget under conditional     *)
(* and unconditional sets (within and beyond maxItemBytes, with and        *)
(* without a TTL), increments, deletes, the sweeper and the clock.  A set  *)
(* presents as ifMatch a version the store has handed out, or one it never *)
(* hands out.                                                              *)
(***************************************************************************)
WrongVersion == MaxCalls + 1

Tokens == {v \in Versions : v < nextUlid} \cup {WrongVersion}

CasWrites == {Item(<<>>, TextX, 0), Item(<<>>, TextY, 1), Item(<<>>, Oversize, 0)}

InitCAS == InitWith({0})

ObservedCAS(A) ==
    /\ A
    /\ TrackCasWins
    /\ TrackCreates
    /\ UNCHANGED <<written, run, burst, deleted, lru, touched, budgetBytes, admitted, lastPut, stats, lineage, boundary, minheap>>

\* a public mutating call of SpecCAS
CallCAS(A) == calls < MaxSeqCalls /\ ObservedCAS(A)

NextCAS ==
    \/ ObservedCAS(Tick)
    \/ \E w \in CasWrites, ifNoneMatch \in BOOLEAN :
          CallCAS(Set(KeyA, w.value, w.ttl, 0, ifNoneMatch))
    \/ \E v \in {TextX, Oversize}, ifMatch \in Tokens, ifNoneMatch \in BOOLEAN :
          CallCAS(Set(KeyA, v, 0, ifMatch, ifNoneMatch))
    \/ CallCAS(Increment(KeyA, 2))
    \/ CallCAS(Delete(KeyA, 0))
    \/ \E s \in Shards : ObservedCAS(Dispatch(s))
    \/ \E s \in Shards : ObservedCAS(Sweep(s))

SpecCAS == InitCAS /\ [][NextCAS]_vars

(***************************************************************************)
(* Properties of SpecCAS.  They read the operation a shard executed last,  *)
(* with the entry it found (pre), the time (at) and its outcome.           *)
(***************************************************************************)
Executed == {shards[s].awaiting[1] : s \in {x \in Shards : shards[x].awaiting # <<>>}}

ExecutedSets == {aw \in Executed : IsPlainSet(aw.op)}

\* the entry the executed set left in the index carries the version the set
\* returned, and that version differs from the one it replaced
InstalledNewVersion(aw) ==
    /\ aw.result.status = "ok"
    /\ aw.result.version # 0
    /\ aw.pre # <<>> => aw.result.version # aw.pre[1].version
    /\ aw.op.key \in DOMAIN shards[ShardOf(aw.op.key)].entries
    /\ shards[ShardOf(aw.op.key)].entries[aw.op.key].version = aw.result.version
    /\ shards[ShardOf(aw.op.key)].entries[aw.op.key].value = aw.op.entry.value

VersionMismatch(aw) == FoundAbsent(aw) \/ aw.pre[1].version # aw.op.ifMatch

MismatchDetails(aw) ==
    [key |-> aw.op.key, expected |-> aw.op.ifMatch,
     actual |-> IF FoundAbsent(aw) THEN 0 ELSE aw.pre[1].version]

\* C4 as stated: a set carrying ifMatch = V is rejected with Conflict exactly
\* when the key is absent or expired or its version is not V, with details
\* {key, expected, actual}; otherwise it succeeds and installs a new version
C4_ConditionalUpdate ==
    \A aw \in ExecutedSets :
        aw.op.ifMatch # 0 =>
            IF VersionMismatch(aw)
            THEN aw.result.status = "Conflict" /\ aw.result.details = MismatchDetails(aw)
            ELSE InstalledNewVersion(aw)

\* C4 amended: a set carrying ifMatch = V is rejected with Conflict exactly
\* when it also carries ifNoneMatch and the key is present and unexpired
\* (details {key}), or the key is absent or expired or its version is not V
\* (details {key, expected, actual}); otherwise it is rejected with
\* PayloadTooLarge when its size exceeds maxItemBytes, and else succeeds and
\* installs a new version
C4_ConditionalUpdateAmended ==
    \A aw \in ExecutedSets :
        aw.op.ifMatch # 0 =>
            IF aw.op.ifNoneMatch /\ ~FoundAbsent(aw)
            THEN aw.result.status = "Conflict" /\ aw.result.details = [key |-> aw.op.key]
            ELSE IF VersionMismatch(aw)
            THEN aw.result.status = "Conflict" /\ aw.result.details = MismatchDetails(aw)
            ELSE IF aw.op.entry.sizeBytes > MaxItemBytes
            THEN aw.result.status = "PayloadTooLarge"
            ELSE InstalledNewVersion(aw)

\* a set is rejected for presenting the version of an entry that has expired
\* and is still in the index
C4_Witness ==
    \E aw \in ExecutedSets :
        /\ aw.op.ifMatch # 0
        /\ aw.pre # <<>>
        /\ aw.pre[1].version = aw.op.ifMatch
        /\ FoundAbsent(aw)
        /\ aw.result.status = "Conflict"
        /\ aw.result.details.actual = 0

\* the key's sequence of create-only sets is live: open, and the entry has
\* not expired since
SequenceLive(k) ==
    /\ creates[k].active
    /\ LET entries == shards[ShardOf(k)].entries
       IN k \in DOMAIN entries =>
             ~(entries[k].expiresAt # 0 /\ entries[k].expiresAt <= now)

FirstCreateStands(k) ==
    /\ creates[k].firstOk
    /\ creates[k].laterOk = 0
    /\ k \in DOMAIN shards[ShardOf(k)].entries
    /\ shards[ShardOf(k)].entries[k].value = creates[k].value

\* C5 as stated: a set carrying ifNoneMatch is rejected with Conflict exactly
\* when the key is present and unexpired, and succeeds otherwise; of a
\* sequence of create-only sets on a key with no delete or expiry in
\* between, exactly the first succeeds and its value stays stored
C5_CreateOnly ==
    /\ \A aw \in ExecutedSets :
          aw.op.ifNoneMatch =>
              IF FoundAbsent(aw) THEN InstalledNewVersion(aw)
              ELSE aw.result.status = "Conflict"
    /\ \A k \in Keys : SequenceLive(k) => FirstCreateStands(k)

\* C5 amended: a set carrying ifNoneMatch is rejected with Conflict exactly
\* when the key is present and unexpired or the set also carries ifMatch; on
\* an absent or expired key a set without ifMatch succeeds if its size is
\* within maxItemBytes and is rejected with PayloadTooLarge otherwise.  A
\* Conflict leaves the entry as it was.  Of a sequence of create-only sets
\* without ifMatch and within maxItemBytes, with no delete, expiry or other
\* successful write in between, exactly the first succeeds and its value
\* stays stored
C5_CreateOnlyAmended ==
    /\ \A aw \in ExecutedSets :
          aw.op.ifNoneMatch =>
              IF ~FoundAbsent(aw) \/ aw.op.ifMatch # 0
              THEN /\ aw.result.status = "Conflict"
                   /\ Lookup(shards[ShardOf(aw.op.key)].entries, aw.op.key) = aw.pre
              ELSE IF aw.op.entry.sizeBytes > MaxItemBytes
              THEN aw.result.status = "PayloadTooLarge"
              ELSE InstalledNewVersion(aw)
    /\ \A k \in Keys : SequenceLive(k) /\ creates[k].clean => FirstCreateStands(k)

\* a second create-only set with another value has been rejected and the
\* value of the first is still stored
C5_Witness ==
    \E aw \in ExecutedSets :
        /\ aw.op.ifNoneMatch
        /\ aw.op.ifMatch = 0
        /\ aw.result.status = "Conflict"
        /\ SequenceLive(aw.op.key)
        /\ creates[aw.op.key].clean
        /\ creates[aw.op.key].value # aw.op.entry.value
        /\ FirstCreateStands(aw.op.key)

\* C6: a version authorises at most one successful conditional set: once a
\* set with ifMatch = V has succeeded on a key, every set on that key that
\* presents V afterwards is rejected with Conflict
C6_CasMonotonicity ==
    /\ \A token \in DOMAIN casWins : casWins[token] <= 1
    /\ \A aw \in ExecutedSets :
          aw.op.ifMatch # 0 /\ <<aw.op.key, aw.op.ifMatch>> \in DOMAIN casWins
              => aw.result.status \in {"ok", "Conflict"}

\* a set presenting a version that already authorised a write is rejected,
\* after a further write followed the winner's
C6_Witness ==
    \E aw \in ExecutedSets :
        /\ aw.op.ifMatch # 0
        /\ <<aw.op.key, aw.op.ifMatch>> \in DOMAIN casWins
        /\ aw.result.status = "Conflict"
        /\ aw.pre # <<>>
        /\ aw.pre[1].version > aw.op.ifMatch + 1

\* C15: an increment by delta of a key with no entry stores and returns delta;
\* on a number entry holding x it stores and returns x + delta in a number
\* entry with a version never minted before, updatedAt the time of execution,
\* the createdAt of the entry it replaces and sizeBytes 8; on an entry of any
\* other type it fails with BadRequest and leaves the entry alone.
C15_IncrementSemantics ==
    [][\A s \in Shards :
          (ExecutedOn(s) /\ IsIncrement(shards'[s].awaiting[1].op)) =>
             LET aw == shards'[s].awaiting[1]
                 key == aw.op.key
                 delta == aw.op.entry.delta
                 stored == shards'[s].entries[key]
                 x == IF aw.pre = <<>> THEN 0 ELSE aw.pre[1].value.num
             IN IF aw.pre # <<>> /\ aw.pre[1].type # "number"
                THEN /\ aw.result.status = "BadRequest"
                     /\ Lookup(shards'[s].entries, key) = aw.pre
                ELSE /\ aw.result.status = "ok"
                     /\ aw.result.value = x + delta
                     /\ key \in DOMAIN shards'[s].entries
                     /\ stored.value = JsNumber(x + delta)
                     /\ stored.type = "number"
                     /\ stored.version = aw.result.version
                     /\ stored.version >= nextUlid
                     /\ stored.updatedAt = now
                     /\ stored.createdAt = IF aw.pre = <<>> THEN now
                                           ELSE aw.pre[1].createdAt
                     /\ stored.sizeBytes = NumberSizeBytes]_vars

\* an increment has executed on a number entry created at an earlier time
C15_Witness ==
    \E s \in Shards :
       /\ shards[s].awaiting # <<>>
       /\ IsIncrement(shards[s].awaiting[1].op)
       /\ shards[s].awaiting[1].result.status = "ok"
       /\ shards[s].awaiting[1].pre # <<>>
       /\ shards[s].awaiting[1].at > shards[s].awaiting[1].pre[1].createdAt
       /\ shards[s].awaiting[1].result.value = 2 * shards[s].awaiting[1].op.entry.delta

(***************************************************************************)
(* SpecConc: a key is written, then a burst of sets that all present the   *)
(* key's version is issued, each call of the burst while an earlier one is *)
(* still unanswered.  The calls differ in value, may exceed maxItemBytes,  *)
(* may carry ifNoneMatch as well, and may find the mailbox full.           *)
(***************************************************************************)
BurstKey == KeyA

\* the tally after the operation that this step executed, if it is one of
\* the burst; the burst is done when the dispatcher stops for the first time
Tally(b) ==
    LET s == ShardOf(BurstKey)
        aw == shards'[s].awaiting[1]
        counted ==
            IF ExecutedOn(s) /\ IsPlainSet(aw.op) /\ aw.op.ifMatch # 0
            THEN CASE aw.result.status = "ok" ->
                          [b EXCEPT !.ok = @ + 1, !.winner = <<aw.op.entry.value>>]
                   [] aw.result.status = "Conflict" -> [b EXCEPT !.conflict = @ + 1]
                   [] OTHER -> [b EXCEPT !.other = @ + 1]
            ELSE b
    IN IF counted.version # 0 /\ ~counted.done /\ ~shards'[s].isProcessing
       THEN [counted EXCEPT !.done = TRUE,
                            !.stored = Lookup(shards'[s].entries, BurstKey)]
       ELSE counted

ObservedConc(A) ==
    /\ A
    /\ burst' = Tally(burst)
    /\ UNCHANGED <<written, casWins, run, creates, deleted, lru, touched, budgetBytes, admitted, lastPut, stats, lineage, boundary, minheap>>

\* a write before the burst
Prepare(w) ==
    /\ burst.version = 0
    /\ ObservedConc(Set(BurstKey, w.value, w.ttl, 0, FALSE))

\* a call of the burst: the first on an idle shard whose entry for the key is
\* present and unexpired, the others while the shard is still at the burst
BurstSet(value, ifNoneMatch) ==
    LET sh == shards[ShardOf(BurstKey)]
        version == IF burst.version # 0 THEN burst.version
                   ELSE sh.entries[BurstKey].version
    IN /\ ~burst.done
       /\ IF burst.version = 0
          THEN /\ ~sh.isProcessing
               /\ BurstKey \in DOMAIN sh.entries
               /\ ~IsExpiredAt(sh.entries[BurstKey], now)
          ELSE sh.isProcessing
       /\ Set(BurstKey, value, 0, version, ifNoneMatch)
       /\ burst' = Tally([burst EXCEPT
                            !.version = version,
                            !.issued = @ + 1,
                            !.clean = /\ @
                                      /\ ~ifNoneMatch
                                      /\ ~MailboxFull(sh)
                                      /\ calculateValueSize(value, inferValueType(value))
                                            <= MaxItemBytes])
       /\ UNCHANGED <<written, casWins, run, creates, deleted, lru, touched, budgetBytes, admitted, lastPut, stats, lineage, boundary, minheap>>

InitConc == InitWith({0})

NextConc ==
    \/ ObservedConc(Tick)
    \/ \E w \in {Item(<<>>, TextX, 0), Item(<<>>, TextX, 1)} : Prepare(w)
    \/ \E v \in {TextX, TextY, Oversize} : BurstSet(v, FALSE)
    \/ BurstSet(TextY, TRUE)
    \/ \E s \in Shards : ObservedConc(Dispatch(s))
    \/ \E s \in Shards : ObservedConc(Sweep(s))

SpecConc == InitConc /\ [][NextConc]_vars

(***************************************************************************)
(* Properties of SpecConc.                                                 *)
(***************************************************************************)
BurstDone == burst.done /\ burst.issued >= 2

WinnerStored ==
    /\ burst.stored # <<>>
    /\ <<burst.stored[1].value>> = burst.winner

InitInc == InitWith({0, 2 * NumShards})

ObservedInc(A) ==
    /\ A
    /\ TrackRun
    /\ UNCHANGED <<written, casWins, burst, creates, deleted, lru, touched, budgetBytes, admitted, lastPut, stats, lineage, boundary, minheap>>

\* a public mutating call of SpecInc
CallInc(A) == calls < MaxSeqCalls /\ ObservedInc(A)

NextInc ==
    \/ \E k \in {KeyA, KeyC}, v \in {TextX, Number5} : CallInc(Set(k, v, 0, 0, FALSE))
    \/ \E k \in {KeyA, KeyC}, delta \in {1, 2} : CallInc(Increment(k, delta))
    \/ \E k \in {KeyA, KeyC} : CallInc(Delete(k, 0))
    \/ \E k \in {KeyA, KeyC} : ObservedInc(Get(k))
    \/ \E s \in Shards : ObservedInc(Dispatch(s))

SpecInc == InitInc /\ [][NextInc]_vars

(***************************************************************************)
(* Properties of SpecInc.                                                  *)
(***************************************************************************)
\* C8: while nothing but admitted increments changes a key, the key holds
\* its initial value (0 if it was absent) plus the sum of the deltas executed
\* so far, the increments execute in the order of their admission, and each
\* returns the sum up to and including its own delta
C8_AtomicIncrement ==
    \A k \in Keys :
        run[k].active =>
            /\ k \in DOMAIN shards[ShardOf(k)].entries
            /\ shards[ShardOf(k)].entries[k].value = JsNumber(run[k].base + run[k].sum)
            /\ shards[ShardOf(k)].entries[k].type = "number"
            /\ run[k].ordered
            /\ \A aw \in Executed :
                  /\ IsIncrement(aw.op)
                  /\ aw.op.key = k
                  /\ aw.result.status = "ok"
                  => aw.result.value = run[k].base + run[k].sum

\* two increments of a key that held 5 have executed and a third, issued
\* meanwhile, is still in the mailbox
C8_Witness ==
    /\ run[KeyA].active
    /\ run[KeyA].base = 5
    /\ run[KeyA].sum >= 3
    /\ \E i \in 1..Len(shards[ShardOf(KeyA)].operationQueue) :
          LET op == shards[ShardOf(KeyA)].operationQueue[i]
          IN IsIncrement(op) /\ op.key = KeyA

(***************************************************************************)
(* SpecBatch: batchSet and batchDelete calls of up to MaxBatch items over  *)
(* two keys of different shards, duplicates and the empty batch included,  *)
(* one call after the other, with the clock and the sweeper.               *)
(***************************************************************************)
BatchKeys == {KeyA, KeyB}

BatchItems == {Item(k, TextX, 0) : k \in BatchKeys} \cup {Item(KeyA, TextY, 1)}

\* the sequences of at most MaxBatch members of S
SeqsUpTo(S) == UNION {[1..n -> S] : n \in 0..MaxBatch}

InitBatch == InitWith({0})

ObservedBatch(A) ==
    /\ A
    /\ UNCHANGED <<written, casWins, run, burst, creates, deleted, lru, touched, budgetBytes, admitted, lastPut, stats, lineage, boundary, minheap>>

\* a batch call of SpecBatch
CallBatch(A) == calls < MaxBatchCalls /\ ObservedBatch(A)

NextBatch ==
    \/ ObservedBatch(Tick)
    \/ \E items \in SeqsUpTo(BatchItems) : CallBatch(BatchSet(items))
    \/ \E keys \in SeqsUpTo(BatchKeys) :
          CallBatch(BatchDelete([i \in 1..Len(keys) |-> Item(keys[i], JsNull, 0)]))
    \/ \E s \in Shards : ObservedBatch(Dispatch(s))
    \/ \E s \in Shards : ObservedBatch(Sweep(s))
    \/ ObservedBatch(BatchReturn)

SpecBatch == InitBatch /\ [][NextBatch]_vars

(***************************************************************************)
(* Properties of SpecBatch.                                                *)
(***************************************************************************)
\* C9: the results a batchSet or batchDelete returns are as many as its
\* items, and the i-th result names the key of the i-th item
C9_BatchResultOrder ==
    batch.returned =>
        /\ Len(batch.response) = Len(batch.items)
        /\ \A i \in 1..Len(batch.response) : batch.response[i].key = batch.items[i].key

\* C10: a batchSet reports 'created' for an item written on a key that was
\* absent or expired just before the write, and 'updated' for one written on
\* a key that was present
C10_BatchSetStatus ==
    batch.returned /\ batch.kind = "set" =>
        \A i \in 1..Len(batch.response) :
            batch.response[i].status # "error" =>
                batch.response[i].status =
                    IF batch.response[i].fresh THEN "created" ELSE "updated"

(***************************************************************************)
(* SpecRead: batchGet over lists with repeated keys, keys of both shards   *)
(* and a key that is never written, between sets with and without a TTL,  *)
(* deletes, the sweeper and the clock.                                     *)
(***************************************************************************)
ReadLists == {<<KeyA, KeyB, KeyA>>, <<KeyB, KeyC>>, <<KeyC, KeyA, KeyB>>}

InitRead == InitWith({0})

ObservedRead(A) ==
    /\ A
    /\ UNCHANGED <<written, casWins, run, burst, creates, deleted, lru, touched, budgetBytes, admitted, lastPut, stats, lineage, boundary, minheap>>

CallRead(A) == calls < MaxTraffic /\ ObservedRead(A)

NextRead ==
    \/ ObservedRead(Tick)
    \/ \E keys \in ReadLists : ObservedRead(BatchGet(keys))
    \/ \E k \in BatchKeys, ttl \in {0, 1} : CallRead(Set(k, TextX, ttl, 0, FALSE))
    \/ \E k \in BatchKeys : CallRead(Increment(k, 2))
    \/ \E k \in BatchKeys : CallRead(Delete(k, 0))
    \/ \E s \in Shards : ObservedRead(Dispatch(s))
    \/ \E s \in Shards : ObservedRead(Sweep(s))

SpecRead == InitRead /\ [][NextRead]_vars

\* how many times x occurs in the sequence q
Count(q, x) == Cardinality({i \in 1..Len(q) : q[i] = x})

\* the shard of key k holds an unexpired entry for it
HoldsUnexpired(k) ==
    LET sh == shards[ShardOf(k)]
    IN /\ k \in DOMAIN sh.entries
       /\ ~(sh.entries[k].expiresAt # 0 /\ sh.entries[k].expiresAt <= now)

\* C11: a batchGet puts every requested occurrence of a key in exactly one of
\* hits and misses (so |hits| + |misses| = |keys|); a key is in hits iff its
\* shard held an unexpired entry for it when the call read, and each hit
\* carries the value, type and version of that entry.
C11_BatchGetPartition ==
    [][lastRead'.kind = "batchGet" =>
        LET r == lastRead'
            hitKeys == [i \in 1..Len(r.hits) |-> r.hits[i].key]
        IN /\ Len(r.hits) + Len(r.misses) = Len(r.keys)
           /\ \A k \in Keys :
                 /\ Count(hitKeys, k) + Count(r.misses, k) = Count(r.keys, k)
                 /\ Count(hitKeys, k) = 0 \/ Count(r.misses, k) = 0
                 /\ Count(r.keys, k) > 0 => (Count(hitKeys, k) > 0 <=> HoldsUnexpired(k))
           /\ \A i \in 1..Len(r.hits) :
                 LET e == shards[ShardOf(r.hits[i].key)].entries[r.hits[i].key]
                 IN /\ r.hits[i].value = e.value
                    /\ r.hits[i].type = e.type
                    /\ r.hits[i].version = e.version]_vars

\* a batchGet of three keys, one of them asked for twice and hit twice, the
\* other missed because its entry had expired (its heap record is still there)
C11_Witness ==
    /\ lastRead.kind = "batchGet"
    /\ Len(lastRead.keys) = MaxBatch
    /\ Len(lastRead.hits) = 2
    /\ lastRead.hits[1].key = lastRead.hits[2].key
    /\ \E k \in Range(lastRead.misses) :
          \E i \in 1..Len(shards[ShardOf(k)].ttlHeap) :
             /\ shards[ShardOf(k)].ttlHeap[i].key = k
             /\ shards[ShardOf(k)].ttlHeap[i].expiresAt <= lastRead.at

(***************************************************************************)
(* SpecDel: one key under sets with and without a TTL, deletes with and    *)
(* without If-Match (the versions minted so far and one never minted),     *)
(* gets, the sweeper and the clock.                                        *)
(***************************************************************************)
InitDel == InitWith({0})

ObservedDel(A) ==
    /\ A
    /\ TrackDeleted
    /\ UNCHANGED <<written, casWins, run, burst, creates, lru, touched, budgetBytes, admitted, lastPut, stats, lineage, boundary, minheap>>

CallDel(A) == calls < MaxSeqCalls /\ ObservedDel(A)

NextDel ==
    \/ ObservedDel(Tick)
    \/ ObservedDel(Get(KeyA))
    \/ \E ttl \in {0, 1} : CallDel(Set(KeyA, TextX, ttl, 0, FALSE))
    \/ \E ifMatch \in {0} \cup Tokens : CallDel(Delete(KeyA, ifMatch))
    \/ \E s \in Shards : ObservedDel(Dispatch(s))
    \/ \E s \in Shards : ObservedDel(Sweep(s))

SpecDel == InitDel /\ [][NextDel]_vars

\* in this step shard s has executed a delete
DeleteExecutedOn(s) == ExecutedOn(s) /\ shards'[s].awaiting[1].op.type = "delete"

\* C12: a delete (with or without ifMatch) of a key that is absent, or present
\* but expired by wall-clock, returns false, and a delete returns true only
\* when it removed an unexpired entry.
C12_DeleteMissing ==
    [][\A s \in Shards : DeleteExecutedOn(s) =>
          LET aw == shards'[s].awaiting[1]
          IN /\ FoundAbsent(aw) => aw.result.status = "ok" /\ ~aw.result.flag
             /\ aw.result.flag =>
                   /\ ~FoundAbsent(aw)
                   /\ aw.op.key \notin DOMAIN shards'[s].entries]_vars

\* C13: a delete of k executed right after a delete of k that was not rejected
\* returns false ('missing') and leaves the shard's entries, LRU and TTL heap
\* as the first delete left them.
C13_IdempotentDelete ==
    [][\A s \in Shards :
          (DeleteExecutedOn(s) /\ deleted[s] = <<shards'[s].awaiting[1].op.key>>) =>
             /\ shards'[s].awaiting[1].result.status = "ok"
             /\ ~shards'[s].awaiting[1].result.flag
             /\ shards'[s].entries = shards[s].entries
             /\ shards'[s].lru = shards[s].lru
             /\ shards'[s].ttlHeap = shards[s].ttlHeap]_vars

\* two deletes of the key have executed back to back, the first of which
\* removed an entry whose heap record is still in the TTL heap
C13_Witness ==
    \E s \in Shards :
       /\ shards[s].awaiting # <<>>
       /\ shards[s].awaiting[1].op.type = "delete"
       /\ deleted[s] = <<shards[s].awaiting[1].op.key>>
       /\ shards[s].awaiting[1].pre = <<>>
       /\ ~shards[s].awaiting[1].result.flag
       /\ shards[s].ttlHeap # <<>>

\* C14: a delete carrying ifMatch = V on a present, unexpired entry whose
\* version is not V is rejected with Conflict {key, expected: V, actual: the
\* entry's version} and leaves the entry as it was; with V the entry's version
\* it removes the entry and returns true.
C14_ConditionalDelete ==
    [][\A s \in Shards :
          (/\ DeleteExecutedOn(s)
           /\ shards'[s].awaiting[1].op.ifMatch # 0
           /\ ~FoundAbsent(shards'[s].awaiting[1])) =>
             LET aw == shards'[s].awaiting[1]
                 key == aw.op.key
             IN IF aw.pre[1].version # aw.op.ifMatch
                THEN /\ aw.result.status = "Conflict"
                     /\ aw.result.details = [key |-> key, expected |-> aw.op.ifMatch,
                                             actual |-> aw.pre[1].version]
                     /\ Lookup(shards'[s].entries, key) = aw.pre
                     /\ LruHas(shards'[s].lru, key)
                ELSE /\ aw.result.status = "ok"
                     /\ aw.result.flag
                     /\ key \notin DOMAIN shards'[s].entries
                     /\ ~LruHas(shards'[s].lru, key)]_vars

\* a conditional delete was rejected on the version of an entry that a get
\* still returns
C14_Witness ==
    \E s \in Shards :
       /\ shards[s].awaiting # <<>>
       /\ shards[s].awaiting[1].op.type = "delete"
       /\ shards[s].awaiting[1].result.status = "Conflict"
       /\ shards[s].awaiting[1].op.ifMatch < nextUlid
       /\ ~FoundAbsent(shards[s].awaiting[1])
       /\ lastRead.kind = "get"
       /\ lastRead.hits = shards[s].awaiting[1].pre

(***************************************************************************)
(* SpecSize: stores built with maxItemBytes at MaxItemBytes and at half of *)
(* it; sets of strings whose size is a ceiling or one byte more,           *)
(* increments, deletes and gets on one key.                                *)
(***************************************************************************)
Ceilings == {MaxItemBytes \div 2, MaxItemBytes}

\* a string of n one-byte characters
TextOf(n) == JsString([i \in 1..n |-> 120])

SizedTexts == {TextOf(n) : n \in Ceilings \cup {m + 1 : m \in Ceilings}}

InitSize == InitStore({0}, Ceilings, {DefaultMaxInflight})

ObservedSize(A) ==
    /\ A
    /\ UNCHANGED <<written, casWins, run, burst, creates, deleted, lru, touched, budgetBytes, admitted, lastPut, stats, lineage, boundary, minheap>>

CallSize(A) == calls < MaxSeqCalls /\ ObservedSize(A)

NextSize ==
    \/ ObservedSize(Get(KeyA))
    \/ \E v \in SizedTexts : CallSize(Set(KeyA, v, 0, 0, FALSE))
    \/ CallSize(Increment(KeyA, 2))
    \/ CallSize(Delete(KeyA, 0))
    \/ \E s \in Shards : ObservedSize(Dispatch(s))

SpecSize == InitSize /\ [][NextSize]_vars

\* C16: an unconditional set whose sizeBytes is within the shard's
\* maxItemBytes (maxItemBytes itself included) is accepted and stored, one
\* whose sizeBytes is maxItemBytes + 1 or more is rejected with
\* PayloadTooLarge, and no shard ever holds an entry whose sizeBytes exceeds
\* its maxItemBytes.
C16_ItemSizeCeiling ==
    [][\A s \in Shards :
          /\ (ExecutedOn(s) /\ IsPlainSet(shards'[s].awaiting[1].op)) =>
                LET aw == shards'[s].awaiting[1]
                IN IF aw.op.entry.sizeBytes <= shards[s].maxItemBytes
                   THEN /\ aw.result.status = "ok"
                        /\ Lookup(shards'[s].entries, aw.op.key) # <<>>
                        /\ shards'[s].entries[aw.op.key].value = aw.op.entry.value
                   ELSE /\ aw.result.status = "PayloadTooLarge"
                        /\ Lookup(shards'[s].entries, aw.op.key) = aw.pre
          /\ \A k \in DOMAIN shards'[s].entries :
                shards'[s].entries[k].sizeBytes <= shards'[s].maxItemBytes]_vars

(***************************************************************************)
(* SpecFlow: stores with an in-flight cap of 1 and of 2 under single-key   *)
(* calls (valid, invalid, conflicting), gets, and batches whose fan-out    *)
(* fills a shard's mailbox.                                                *)
(***************************************************************************)
Caps == {1, 2}

\* a batch that leaves MaxShardMailbox operations pending on one shard
FlowBatch == [i \in 1..(MaxShardMailbox + 1) |-> Item(KeyA, TextX, 0)]

InitFlow == InitStore({0}, {MaxItemBytes}, Caps)

ObservedFlow(A) ==
    /\ A
    /\ UNCHANGED <<written, casWins, run, burst, creates, deleted, lru, touched, budgetBytes, admitted, lastPut, stats, lineage, boundary, minheap>>

CallFlow(A) == calls < MaxSeqCalls /\ ObservedFlow(A)

NextFlow ==
    \/ \E k \in BatchKeys : ObservedFlow(Get(k))
    \/ ObservedFlow(BatchGet(<<KeyA, KeyB>>))
    \/ \E k \in BatchKeys, v \in {TextX, JsNull} : CallFlow(Set(k, v, 0, 0, FALSE))
    \/ CallFlow(Increment(KeyA, 2))
    \/ \E ifMatch \in {0, WrongVersion} : CallFlow(Delete(KeyA, ifMatch))
    \/ CallFlow(BatchSet(FlowBatch))
    \/ CallFlow(BatchDelete(<<Item(KeyA, JsNull, 0), Item(KeyB, JsNull, 0)>>))
    \/ ObservedFlow(BatchReturn)
    \/ \E s \in Shards : ObservedFlow(Dispatch(s))

SpecFlow == InitFlow /\ [][NextFlow]_vars

\* the single-key calls a shard has admitted and not yet answered
Unanswered(sh) ==
    Cardinality({i \in 1..Len(sh.operationQueue) : Completes([op |-> sh.operationQueue[i]])})
    + (IF sh.awaiting # <<>> /\ Completes(sh.awaiting[1]) THEN 1 ELSE 0)

\* the public calls admitted and not yet completed: the unanswered single-key
\* calls and the batch call that has not returned
Outstanding ==
    SumSeq([s \in 1..NumShards |-> Unanswered(shards[s - 1])])
    + (IF batch.kind # "none" /\ ~batch.returned THEN 1 ELSE 0)

\* C17: the in-flight counter equals the number of admitted public calls that
\* have not completed (a batch counting as one, a call that ends with an error
\* leaving it like one that succeeds), so it is 0 when no call is outstanding;
\* it stays within 0..maxInflight; a call arriving when it is at maxInflight
\* or above is refused with Overloaded, and a refused call leaves it unchanged.
C17_InflightAdmission ==
    [][/\ currentInflight' = Outstanding'
       /\ 0 <= currentInflight' /\ currentInflight' <= maxInflight'
       /\ (calls' # calls /\ currentInflight >= maxInflight) => thrown' = ServiceOverloaded
       /\ thrown' = ServiceOverloaded =>
             /\ currentInflight >= maxInflight
             /\ currentInflight' = currentInflight
             /\ shards' = shards /\ batch' = batch]_vars

\* a call has been refused while a batch with several operations pending and
\* a single-key call fill the cap
C17_Witness ==
    /\ thrown = ServiceOverloaded
    /\ currentInflight = maxInflight
    /\ batch.kind # "none" /\ ~batch.returned /\ batch.pending > 1
    /\ \E s \in Shards : Unanswered(shards[s]) = 1

\* C18: a mutation submitted to a shard whose mailbox is full is rejected at
\* once without being enqueued, and the boundary answers it as Overloaded
\* (503), not as an internal error.
C18_MailboxFullOverloaded ==
    [][thrown' = ShardMailboxFull =>
          /\ shards' = shards
          /\ errorHandler(thrown').status = 503]_vars

\* the response of an Overloaded failure: 503, Retry-After 0, counted
OverloadedResponse(r) ==
    /\ r.status = 503
    /\ r.retryAfter = <<0>>
    /\ r.backpressure # <<>>

\* C19: every Overloaded response of the boundary, whether the middleware's
\* in-flight cap, the store's in-flight cap or a full shard mailbox raised it,
\* has status 503, carries Retry-After 0 and is counted in the backpressure
\* counter.
C19_RetryHint ==
    /\ \A n \in 0..(maxInflight + 1) :
          backpressureMiddleware(n, maxInflight) # <<>> =>
             OverloadedResponse(backpressureMiddleware(n, maxInflight)[1])
    /\ thrown \in {ServiceOverloaded, ShardMailboxFull} =>
          OverloadedResponse(errorHandler(thrown))

(***************************************************************************)
(* SpecLRU: either a SizeAwareLRU on its own, bounded by count or by       *)
(* bytes, under set, get and delete of three keys; or a store with a byte  *)
(* budget of three bytes per shard under sets of one and two bytes, gets   *)
(* and deletes of three keys of one shard.                                 *)
(***************************************************************************)
engine == <<shards, now, nextUlid, calls, lastRead, batch, currentInflight, maxInflight,
            thrown>>

\* a third key of KeyA's shard
KeyE == <<101>>

LruKeySet == {KeyA, KeyC, KeyE}

\* sizes of one and two bytes, and one larger than the byte bound of 3
LruSizes == {1, 2, 4}

\* beforeEach: lru = new SizeAwareLRU(capacity, maxSizeBytes), before the
\* store has been used
NewLru(capacity, maxSizeBytes) ==
    /\ lru = <<>>
    /\ calls = 0
    /\ lru' = <<SizeAwareLRU(capacity, maxSizeBytes)>>
    /\ lastPut' = NoPut
    /\ UNCHANGED engine

\* lru.set(key, value, sizeBytes)
LruSetCall(key, sizeBytes) ==
    /\ lru # <<>>
    /\ lru' = <<LruSet(lru[1], key, sizeBytes)[1]>>
    /\ lastPut' = [key |-> key, sizeBytes |-> sizeBytes, before |-> lru[1],
                   evicted |-> LruSet(lru[1], key, sizeBytes)[2]]
    /\ UNCHANGED engine

\* lru.get(key)
LruGetCall(key) ==
    /\ lru # <<>>
    /\ lru' = <<LruGet(lru[1], key)>>
    /\ lastPut' = NoPut
    /\ UNCHANGED engine

\* lru.delete(key)
LruDeleteCall(key) ==
    /\ lru # <<>>
    /\ lru' = <<LruDelete(lru[1], key)>>
    /\ lastPut' = NoPut
    /\ UNCHANGED engine

Without(q, k) == SelectSeq(q, LAMBDA x : x # k)

MoveToEnd(q, k) == Without(q, k) \o <<k>>

\* touched.shards: an executed set that succeeded and a get that hit move the
\* key to the end, an executed delete that removed the entry takes it out
TrackTouched ==
    touched' = [touched EXCEPT !.shards = [s \in Shards |->
        IF ExecutedOn(s)
        THEN LET aw == shards'[s].awaiting[1]
             IN IF aw.result.status # "ok" THEN touched.shards[s]
                ELSE IF IsPlainSet(aw.op) THEN MoveToEnd(touched.shards[s], aw.op.key)
                ELSE IF aw.op.type = "delete" /\ aw.result.flag
                THEN Without(touched.shards[s], aw.op.key)
                ELSE touched.shards[s]
        ELSE IF /\ lastRead'.kind = "get"
                /\ lastRead'.hits # <<>>
                /\ ShardOf(lastRead'.keys[1]) = s
             THEN MoveToEnd(touched.shards[s], lastRead'.keys[1])
             ELSE touched.shards[s]]]

\* a step of the store while no LRU is under unit test
ObservedStoreLRU(A) ==
    /\ lru = <<>>
    /\ A
    /\ TrackTouched
    /\ UNCHANGED <<written, casWins, run, burst, creates, deleted, lru, budgetBytes, admitted, lastPut, stats, lineage, boundary, minheap>>

CallLRU(A) == calls < MaxSeqCalls /\ ObservedStoreLRU(A)

\* a call on the LRU under unit test that leaves `order` as its access order
ObservedLruCall(A, order) ==
    /\ A
    /\ touched' = [touched EXCEPT !.lru = order]
    /\ UNCHANGED <<written, casWins, run, burst, creates, deleted, budgetBytes, admitted, stats, lineage, boundary, minheap>>

\* the limits of the standalone LRU: no entries, two entries or any number;
\* three bytes or any number
LruCapacities == {0, 2, Infinity}

LruMaxSizes == {3, Infinity}

InitLRU == InitStore({3 * NumShards}, {MaxItemBytes}, {DefaultMaxInflight})

NextLRU ==
    \/ \E capacity \in LruCapacities, maxSizeBytes \in LruMaxSizes :
          ObservedLruCall(NewLru(capacity, maxSizeBytes), <<>>)
    \/ \E k \in LruKeySet, n \in LruSizes :
          ObservedLruCall(LruSetCall(k, n), MoveToEnd(touched.lru, k))
    \/ \E k \in LruKeySet :
          ObservedLruCall(LruGetCall(k),
                          IF LruHas(lru[1], k) THEN MoveToEnd(touched.lru, k)
                          ELSE touched.lru)
    \/ \E k \in LruKeySet : ObservedLruCall(LruDeleteCall(k), Without(touched.lru, k))
    \/ \E k \in LruKeySet, n \in {1, 2} : CallLRU(Set(k, TextOf(n), 0, 0, FALSE))
    \/ \E k \in LruKeySet : ObservedStoreLRU(Get(k))
    \/ \E k \in LruKeySet : CallLRU(Delete(k, 0))
    \/ \E s \in Shards : ObservedStoreLRU(Dispatch(s))

SpecLRU == InitLRU /\ [][NextLRU]_vars

\* the last n elements of q
Suffix(q, n) == SubSeq(q, Len(q) - n + 1, Len(q))

\* where k stands in q
Position(q, k) == CHOOSE i \in 1..Len(q) : q[i] = k

\* l retains exactly the most recently touched keys of `order`, and keys()
\* lists them from least to most recently touched
RetainsSuffix(l, order) ==
    /\ Len(l.nodes) <= Len(order)
    /\ LruKeys(l) = Suffix(order, Len(l.nodes))

\* the keys that left l in this step without being deleted were all touched
\* less recently than every key l' retains
EvictedOlder(l, after, order) ==
    \A e \in Range(LruKeys(l)) \ Range(LruKeys(after)) :
       e \in Range(order) =>
          \A r \in Range(LruKeys(after)) : Position(order, e) < Position(order, r)

\* C20: after any sequence of set, get and delete on a SizeAwareLRU the keys
\* it retains are a most-recently-touched suffix of the access order, keys()
\* lists them from least to most recently touched, and every key a set
\* evicts was touched less recently than every key retained after it.  The
\* same holds of each shard under sets, gets and deletes with a byte budget:
\* its entries are the keys of that suffix.
C20_LruRecencyOrder ==
    [][/\ lru' # <<>> =>
             /\ RetainsSuffix(lru'[1], touched'.lru)
             /\ lru # <<>> => EvictedOlder(lru[1], lru'[1], touched'.lru)
       /\ \A s \in Shards :
             /\ RetainsSuffix(shards'[s].lru, touched'.shards[s])
             /\ DOMAIN shards'[s].entries = Range(LruKeys(shards'[s].lru))
             /\ EvictedOlder(shards[s].lru, shards'[s].lru, touched'.shards[s])]_vars

\* the LRU under unit test retains two of three keys touched, the less
\* recently put of them moved to the end by a get
C20_Witness ==
    /\ lru # <<>>
    /\ Len(touched.lru) = 3
    /\ LruKeys(lru[1]) = <<KeyC, KeyA>>
    /\ touched.lru = <<KeyE, KeyC, KeyA>>
    /\ lru[1].nodes[2].sizeBytes = 2

\* a shard holds two of the three keys set on it, the one set first kept
\* because a get touched it before the third set
C20_ShardWitness ==
    \E s \in Shards :
       /\ touched.shards[s] = <<KeyC, KeyA, KeyE>>
       /\ DOMAIN shards[s].entries = {KeyA, KeyE}
       /\ shards[s].awaiting # <<>>
       /\ shards[s].awaiting[1].op.key = KeyE

(***************************************************************************)
(* SpecBudget: stores built with a memory budget smaller than the number   *)
(* of shards and with one of three bytes per shard, under sets of one and  *)
(* two bytes, increments, deletes and gets.                                *)
(***************************************************************************)
SetBudgets == {NumShards - 1, 3 * NumShards}

InitBudget == InitWith(SetBudgets)

ObservedBudget(A) ==
    /\ A
    /\ UNCHANGED <<written, casWins, run, burst, creates, deleted, lru, touched,
                   budgetBytes, admitted, lastPut, stats, lineage, boundary, minheap>>

CallBudget(A) == calls < MaxTraffic /\ ObservedBudget(A)

NextBudget ==
    \/ ObservedBudget(Get(KeyA))
    \/ \E k \in Keys, n \in {1, 2} : CallBudget(Set(k, TextOf(n), 0, 0, FALSE))
    \/ CallBudget(Increment(KeyA, 2))
    \/ CallBudget(Delete(KeyA, 0))
    \/ \E s \in Shards : ObservedBudget(Dispatch(s))

SpecBudget == InitBudget /\ [][NextBudget]_vars

\* C21: with a memory budget of B bytes set (B smaller than the number of
\* shards included), the bytes each shard's LRU tracks never exceed
\* floor(B / shards), so the total over the shards never exceeds B.
C21_MemoryBudget ==
    budgetBytes # 0 =>
        /\ \A s \in Shards :
              shards[s].lru.currentSizeBytes <= budgetBytes \div NumShards
        /\ SumSeq([i \in 1..NumShards |-> shards[i - 1].lru.currentSizeBytes])
              <= budgetBytes

(***************************************************************************)
(* SpecMass: four keys of one shard are written with a TTL of one tick and *)
(* expire together, so that one sweeper tick pops more records than the    *)
(* dispatcher and the mailbox take.  SpecMassFair adds that the clock, the *)
(* sweeper's timer and the dispatcher keep running.                        *)
(***************************************************************************)
KeyG == <<103>>

\* the order in which the writer writes the keys
MassOrder == <<KeyA, KeyC, KeyE, KeyG>>

MassKeys == Range(MassOrder)

InitMass == InitWith({0})

ObservedMass(A) ==
    /\ A
    /\ UNCHANGED <<written, casWins, run, burst, creates, deleted, lru, touched,
                   budgetBytes, admitted, lastPut, stats, lineage, boundary, minheap>>

CallMass(A) == calls < MaxSeqCalls /\ ObservedMass(A)

NextMass ==
    \/ ObservedMass(Tick)
    \/ ObservedMass(Get(KeyA))
    \/ \E i \in 1..Len(MassOrder) :
          calls = i - 1 /\ CallMass(Set(MassOrder[i], TextX, 1, 0, FALSE))
    \/ \E s \in Shards : ObservedMass(Dispatch(s))
    \/ \E s \in Shards : ObservedMass(Sweep(s))

SpecMass == InitMass /\ [][NextMass]_vars

SpecMassFair ==
    /\ SpecMass
    /\ WF_vars(ObservedMass(Tick))
    /\ \A s \in Shards : WF_vars(ObservedMass(Dispatch(s)))
    /\ \A s \in Shards : WF_vars(ObservedMass(Sweep(s)))

\* the index of its shard holds key with an expiry that has passed
HeldExpired(key) ==
    /\ key \in DOMAIN shards[ShardOf(key)].entries
    /\ IsExpiredAt(shards[ShardOf(key)].entries[key], now)

\* C22: while the clock, the sweeper and the dispatcher keep running, an entry
\* whose expiry has passed is eventually removed from the index of its shard,
\* whether or not anybody reads the key again.
C22_ExpiryLiveness ==
    \A k \in MassKeys : HeldExpired(k) ~> ~HeldExpired(k)

(***************************************************************************)
(* SpecStop: two keys of one shard under sets, and one of them under       *)
(* increments, deletes and gets, with the clock and the sweeper, in a      *)
(* store that is shut down at some point.  Every set carries a ttl, of 0   *)
(* or of one tick.                                                         *)
(***************************************************************************)
InitStop == InitWith({0})

\* the ttl of a set: the least that TTLSchema admits, and one tick
TtlValues == {0, 1}

ObservedStop(A) ==
    /\ A
    /\ TrackWritten
    /\ UNCHANGED <<casWins, run, burst, creates, deleted, lru, touched, budgetBytes, admitted, lastPut, stats, lineage, boundary, minheap>>

CallStop(A) == calls < MaxTraffic /\ ObservedStop(A)

NextStop ==
    \/ ObservedStop(Tick)
    \/ ObservedStop(Get(KeyA))
    \/ \E k \in {KeyA, KeyC}, ttl \in TtlValues : CallStop(Set(k, TextX, ttl, 0, FALSE))
    \/ CallStop(Increment(KeyA, 1))
    \/ CallStop(Delete(KeyA, 0))
    \/ \E s \in Shards : ObservedStop(Dispatch(s))
    \/ \E s \in Shards : ObservedStop(Sweep(s))
    \/ ObservedStop(Shutdown)

SpecStop == InitStop /\ [][NextStop]_vars

\* the shard has been shut down
IsShutDown(sh) == ~sh.expirationTimer

\* C23: once a shard has been shut down, a public mutation call is refused:
\* it puts nothing into the shard's mailbox, executes nothing and leaves the
\* shard's entries as they are.
C23_ShutdownRefuses ==
    [][\A s \in Shards :
          IsShutDown(shards[s]) /\ calls' # calls =>
              /\ shards'[s].operationQueue = shards[s].operationQueue
              /\ shards'[s].awaiting = shards[s].awaiting
              /\ shards'[s].entries = shards[s].entries]_vars

\* C24: a get that follows a set with ttl = 0 of its key, with no mutation
\* executed in between, returns absence: the entry expired as it was written.
C24_TtlZeroExpires ==
    /\ lastRead.kind = "get"
    /\ lastRead.after # <<>>
    /\ lastRead.after[1].key = lastRead.keys[1]
    /\ lastRead.after[1].expiresAt = 0
    => lastRead.hits = <<>>

\* C25: an expire removes an entry only if, at the moment it executes, that
\* entry has an expiry that has passed; an entry rewritten with no TTL or
\* with a later expiry is not removed because of a stale heap record.
C25_SweeperGuard ==
    [][\A s \in Shards :
          /\ ExecutedOn(s)
          /\ shards'[s].awaiting[1].op.type = "expire"
          /\ shards'[s].awaiting[1].pre # <<>>
          => IsExpiredAt(shards'[s].awaiting[1].pre[1], shards'[s].awaiting[1].at)]_vars

(***************************************************************************)
(* SpecOrder: sets of two values, increments and deletes on two keys of    *)
(* one shard, with no TTL, no budget and no condition, so that the last    *)
(* mutation admitted decides what the shard holds once it is idle.         *)
(***************************************************************************)
InitOrder == InitWith({0})

\* the operation of public call c in the shard, if the shard holds it
AdmittedOp(sh, c) ==
    LET queued == SelectSeq(sh.operationQueue, LAMBDA o : o.caller.call = c)
    IN IF queued # <<>> THEN <<queued[1]>>
       ELSE IF sh.awaiting # <<>> /\ sh.awaiting[1].op.caller.call = c
            THEN <<sh.awaiting[1].op>>
            ELSE <<>>

TrackAdmitted ==
    admitted' = [s \in Shards |->
        IF calls' # calls /\ AdmittedOp(shards'[s], calls') # <<>>
        THEN AdmittedOp(shards'[s], calls')
        ELSE admitted[s]]

ObservedOrder(A) ==
    /\ A
    /\ TrackAdmitted
    /\ UNCHANGED <<written, casWins, run, burst, creates, deleted, lru, touched,
                   budgetBytes, lastPut, stats, lineage, boundary, minheap>>

CallOrder(A) == calls < MaxTraffic /\ ObservedOrder(A)

NextOrder ==
    \/ ObservedOrder(Get(KeyA))
    \/ \E k \in {KeyA, KeyC}, v \in {TextX, TextY} :
          CallOrder(Set(k, v, 0, 0, FALSE))
    \/ CallOrder(Increment(KeyA, 1))
    \/ CallOrder(Delete(KeyA, 0))
    \/ \E s \in Shards : ObservedOrder(Dispatch(s))

SpecOrder == InitOrder /\ [][NextOrder]_vars

\* the operations in the mailbox, head first, are in the order of their calls
Queued(sh) ==
    \A i, j \in 1..Len(sh.operationQueue) :
        i < j => sh.operationQueue[i].caller.call < sh.operationQueue[j].caller.call

\* the operation that executes was admitted before every one still waiting
ExecutesOldest(s) ==
    ExecutedOn(s) =>
        \A i \in 1..Len(shards'[s].operationQueue) :
            shards'[s].awaiting[1].op.caller.call
                < shards'[s].operationQueue[i].caller.call

\* an idle shard holds what the mutation admitted last made of its key
LastWins(sh, last) ==
    ~sh.isProcessing /\ last # <<>> =>
        /\ IsPlainSet(last[1]) =>
              /\ last[1].key \in DOMAIN sh.entries
              /\ sh.entries[last[1].key].value = last[1].entry.value
        /\ last[1].type = "delete" => last[1].key \notin DOMAIN sh.entries

SpecOrderFair ==
    /\ SpecOrder
    /\ \A s \in Shards : WF_vars(ObservedOrder(Dispatch(s)))

\* the operation of public call c waits in a mailbox
Waiting(c) ==
    \E s \in Shards : \E i \in 1..Len(shards[s].operationQueue) :
        shards[s].operationQueue[i].caller.call = c

\* the operation of public call c has executed and its reply is not yet
\* delivered
Answering(c) ==
    \E s \in Shards :
        shards[s].awaiting # <<>> /\ shards[s].awaiting[1].op.caller.call = c

\* how many times the shards hold the operation of public call c
Holdings(c) ==
    SumSeq([i \in 1..NumShards |->
        Len(SelectSeq(shards[i - 1].operationQueue, LAMBDA o : o.caller.call = c))
        + Len(SelectSeq(shards[i - 1].awaiting, LAMBDA a : a.op.caller.call = c))])

\* a mailbox that is not empty has an active dispatcher, and the flag of a
\* dispatcher is set exactly while an executed operation awaits its answer
NoLostWakeup ==
    \A s \in Shards :
        /\ shards[s].operationQueue # <<>> => shards[s].isProcessing
        /\ shards[s].isProcessing <=> shards[s].awaiting # <<>>

\* C27: while the dispatchers keep running, every mutation admitted to a
\* mailbox is eventually executed and eventually answered; it is held once,
\* leaves the mailbox only by executing and does not come back after its
\* answer; and no wake-up is lost: a mailbox that is not empty has an active
\* dispatcher, whose flag is cleared when it finds the mailbox empty.
C27_MutationLiveness ==
    /\ [](NoLostWakeup /\ \A c \in 1..MaxTraffic : Holdings(c) <= 1)
    /\ [][\A c \in 1..MaxTraffic :
            /\ Waiting(c) => Waiting(c)' \/ Answering(c)'
            /\ Answering(c) => Answering(c)' \/ ~Waiting(c)']_vars
    /\ \A c \in 1..MaxTraffic :
            /\ Waiting(c) ~> Answering(c)
            /\ Answering(c) ~> ~(Waiting(c) \/ Answering(c))

\* two admitted mutations wait in the mailbox behind the one that executed
C27_Witness ==
    \E s \in Shards :
        /\ shards[s].isProcessing
        /\ Len(shards[s].operationQueue) = 2
        /\ Waiting(3)

\* the heap holds a record of the key with an expiry within the set
Recorded(sh, key, expiries) ==
    \E i \in 1..Len(sh.ttlHeap) :
        sh.ttlHeap[i].key = key /\ sh.ttlHeap[i].expiresAt \in expiries

\* C28: every entry of the index that has an expiry has a record in the TTL
\* heap of its shard with its key and an expiry not after its own.
C28_HeapCoverage ==
    \A s \in Shards : \A k \in DOMAIN shards[s].entries :
        shards[s].entries[k].expiresAt # 0 =>
            Recorded(shards[s], k, 1..shards[s].entries[k].expiresAt)

\* C28 as amended: every entry of the index whose expiry has not passed has a
\* record in the TTL heap of its shard with its key and its expiry.
C28_HeapCoversLive ==
    \A s \in Shards : \A k \in DOMAIN shards[s].entries :
        shards[s].entries[k].expiresAt > now =>
            Recorded(shards[s], k, {shards[s].entries[k].expiresAt})

\* a sweeper tick has popped the due records and its expire is still queued,
\* while the index holds an entry that expires later
C28_Witness ==
    \E s \in Shards :
        /\ \E i \in 1..Len(shards[s].operationQueue) :
              shards[s].operationQueue[i].type = "expire"
        /\ \E k \in DOMAIN shards[s].entries :
              shards[s].entries[k].expiresAt > now

\* the LRU's counters agree with its nodes and are within its limits
LruWithinLimits(l) ==
    /\ l.size = Len(l.nodes)
    /\ l.currentSizeBytes = SumSeq([i \in 1..Len(l.nodes) |-> l.nodes[i].sizeBytes])
    /\ ~Exceeds(l.size, l.capacity)
    /\ ~Exceeds(l.currentSizeBytes, l.maxSizeBytes)

\* C29: an LRU holds at most capacity nodes and at most maxSizeBytes bytes,
\* its size is the number of its nodes and its byte total the sum of their
\* sizes, after every set, the set of an existing key with another size
\* included.
C29_LruLimits ==
    /\ lru # <<>> => LruWithinLimits(lru[1])
    /\ \A s \in Shards : LruWithinLimits(shards[s].lru)

\* a set gave an existing key another size in an LRU with both limits, and
\* evicted for it
C29_Witness ==
    /\ lastPut.key # <<>>
    /\ lru[1].capacity = 2 /\ lru[1].maxSizeBytes = 3
    /\ LruHas(lastPut.before, lastPut.key)
    /\ lastPut.before.nodes[LruIndex(lastPut.before, lastPut.key)].sizeBytes
           # lastPut.sizeBytes
    /\ lastPut.evicted # <<>>
    /\ lru[1].nodes # <<>>

\* the set can keep its key: the LRU takes entries and the size is within
\* maxSizeBytes
PutFits(put, l) == l.capacity # 0 /\ ~Exceeds(put.sizeBytes, l.maxSizeBytes)

\* C30: a set whose key fits does not return that key among the evicted; a
\* set whose key does not fit (capacity 0, or a size above maxSizeBytes)
\* evicts every node, returns its own key last and leaves the LRU empty.
C30_SelfEviction ==
    lastPut.key # <<>> =>
        IF PutFits(lastPut, lru[1])
        THEN /\ lastPut.key \notin Range(lastPut.evicted)
             /\ LruHas(lru[1], lastPut.key)
        ELSE /\ lastPut.evicted # <<>>
             /\ Last(lastPut.evicted) = lastPut.key
             /\ Range(lastPut.evicted)
                   = {lastPut.before.nodes[i].key : i \in 1..Len(lastPut.before.nodes)}
                     \cup {lastPut.key}
             /\ Len(lastPut.evicted) = Cardinality(Range(lastPut.evicted))
             /\ lru[1].nodes = <<>>
             /\ lru[1].size = 0
             /\ lru[1].currentSizeBytes = 0

\* a set of four bytes on an LRU of three that held two other keys
C30_Witness ==
    /\ lastPut.key # <<>>
    /\ ~PutFits(lastPut, lru[1])
    /\ Len(lastPut.before.nodes) = 2
    /\ ~LruHas(lastPut.before, lastPut.key)
    /\ Len(lastPut.evicted) = 3

(***************************************************************************)
(* SpecStats: one key under gets, plain, conditional and oversized sets,   *)
(* increments, plain and conditional deletes, the clock and the sweeper,   *)
(* with the shards' counters.                                              *)
(***************************************************************************)
\* a get that counts a hit for whatever the index holds, expired or not
statsAfterGetHits(st, sh, key, t) ==
    IF key \notin DOMAIN sh.entries THEN [st EXCEPT !.misses = @ + 1]
    ELSE [st EXCEPT !.hits = @ + 1]

\* the counters after get(key) on shard sh at time t
statsAfterGet(st, sh, key, t) ==
    IF key \notin DOMAIN sh.entries THEN [st EXCEPT !.misses = @ + 1]
    ELSE IF IsExpiredAt(sh.entries[key], t)
         THEN [st EXCEPT !.misses = @ + 1, !.expirations = @ + 1]
         ELSE [st EXCEPT !.hits = @ + 1]

\* counters that count a set before its checks
statsAfterExecuteEager(st, sh, op, result) ==
    IF op.type = "set" THEN [st EXCEPT !.sets = @ + 1]
    ELSE IF op.type = "delete" /\ result.status = "ok" /\ result.flag
    THEN [st EXCEPT !.deletes = @ + 1]
    ELSE st

\* the counters after shard sh has executed op with the given result: a set
\* counts itself and the keys its LRU evicted, an increment counts as a set,
\* a delete counts if it removed the entry, an expire counts nothing
statsAfterExecute(st, sh, op, result) ==
    IF result.status # "ok" THEN st
    ELSE IF IsPlainSet(op)
    THEN [st EXCEPT !.sets = @ + 1,
                    !.evictions = @ + Len(LruSet(sh.lru, op.key, op.entry.sizeBytes)[2])]
    ELSE IF IsIncrement(op) THEN [st EXCEPT !.sets = @ + 1]
    ELSE IF op.type = "delete" /\ result.flag THEN [st EXCEPT !.deletes = @ + 1]
    ELSE st

\* the get of this step, if it is one, read shard s
GetServedBy(s) ==
    lastRead'.kind = "get" /\ ShardOf(lastRead'.keys[1]) = s

CountStats ==
    stats' = [s \in Shards |->
        IF ExecutedOn(s)
        THEN statsAfterExecute(stats[s], shards[s], shards'[s].awaiting[1].op,
                               shards'[s].awaiting[1].result)
        ELSE IF GetServedBy(s)
        THEN statsAfterGet(stats[s], shards[s], lastRead'.keys[1], now)
        ELSE stats[s]]

InitStats == InitWith({0})

ObservedStats(A) ==
    /\ A
    /\ CountStats
    /\ UNCHANGED <<written, casWins, run, burst, creates, deleted, lru, touched,
                   budgetBytes, admitted, lastPut, lineage, boundary, minheap>>

CallStats(A) == calls < MaxTraffic /\ ObservedStats(A)

\* the gets served so far, by the counters
Reads == SumSeq([i \in 1..NumShards |-> stats[i - 1].hits + stats[i - 1].misses])

\* the sets of SpecStats: [value, ttl, ifMatch, ifNoneMatch]
StatsWrites ==
    {<<TextX, 1, 0, FALSE>>, <<Number5, 0, 0, FALSE>>, <<Oversize, 0, 0, FALSE>>,
     <<TextX, 0, WrongVersion, FALSE>>, <<TextX, 0, 0, TRUE>>}

NextStats ==
    \/ ObservedStats(Tick)
    \/ Reads < MaxTraffic /\ ObservedStats(Get(KeyA))
    \/ \E w \in StatsWrites : CallStats(Set(KeyA, w[1], w[2], w[3], w[4]))
    \/ CallStats(Increment(KeyA, 1))
    \/ \E ifMatch \in {0, WrongVersion} : CallStats(Delete(KeyA, ifMatch))
    \/ \E s \in Shards : ObservedStats(Dispatch(s))
    \/ \E s \in Shards : ObservedStats(Sweep(s))

SpecStats == InitStats /\ [][NextStats]_vars

\* the operation that shard s executes in this step is rejected
RejectedOn(s) ==
    /\ ExecutedOn(s)
    /\ shards'[s].awaiting[1].result.status
          \in {"Conflict", "PayloadTooLarge", "BadRequest"}

\* C31: a set rejected with Conflict or PayloadTooLarge, a delete rejected
\* with Conflict and an increment rejected with BadRequest leave the entries,
\* the LRU, the TTL heap and the counters of the shard as they were.
C31_RejectedNoEffect ==
    [][\A s \in Shards :
          RejectedOn(s) =>
              /\ shards'[s].entries = shards[s].entries
              /\ shards'[s].lru = shards[s].lru
              /\ shards'[s].ttlHeap = shards[s].ttlHeap
              /\ stats'[s] = stats[s]]_vars

\* an oversized set was rejected on a shard that holds the key
C31_Witness ==
    \E s \in Shards :
        /\ shards[s].awaiting # <<>>
        /\ shards[s].awaiting[1].result.status = "PayloadTooLarge"
        /\ shards[s].awaiting[1].pre # <<>>
        /\ stats[s].sets > 0

\* C32: an increment that executes on a key whose entry has expired and is
\* still in the index does what it does on an absent key: it succeeds, and
\* stores and returns its delta.
C32_IncrementOnExpired ==
    [][\A s \in Shards :
          /\ ExecutedOn(s)
          /\ IsIncrement(shards'[s].awaiting[1].op)
          /\ shards'[s].awaiting[1].pre # <<>>
          /\ IsExpiredAt(shards'[s].awaiting[1].pre[1], shards'[s].awaiting[1].at)
          => /\ shards'[s].awaiting[1].result.status = "ok"
             /\ shards'[s].awaiting[1].result.value
                   = shards'[s].awaiting[1].op.entry.delta
             /\ shards'[s].entries[shards'[s].awaiting[1].op.key].value
                   = JsNumber(shards'[s].awaiting[1].op.entry.delta)]_vars

\* the get of this step found an expired entry on shard s and removed it
LazilyExpiredOn(s) ==
    /\ GetServedBy(s)
    /\ lastRead'.keys[1] \in DOMAIN shards[s].entries
    /\ lastRead'.keys[1] \notin DOMAIN shards'[s].entries

\* the expire that shard s executes in this step removes an entry
ExpireRemovesOn(s) ==
    /\ ExecutedOn(s)
    /\ shards'[s].awaiting[1].op.type = "expire"
    /\ shards'[s].awaiting[1].pre # <<>>

\* C33: every removal of an entry by expiry adds exactly one to the
\* expirations counter of its shard, be it the lazy expiry of a get, which
\* also adds one to misses, or the sweeper's expire.
C33_ExpirationCounting ==
    [][\A s \in Shards :
          /\ LazilyExpiredOn(s) =>
                /\ stats'[s].expirations = stats[s].expirations + 1
                /\ stats'[s].misses = stats[s].misses + 1
          /\ ExpireRemovesOn(s) =>
                stats'[s].expirations = stats[s].expirations + 1]_vars

\* shard s executes a set or an increment that succeeds and stores its entry
WrittenOn(s) ==
    /\ ExecutedOn(s)
    /\ shards'[s].awaiting[1].op.type = "set"
    /\ shards'[s].awaiting[1].result.status = "ok"
    /\ shards'[s].awaiting[1].op.key \in DOMAIN shards'[s].entries

\* C34: the entry that a set or an increment stores has createdAt <=
\* updatedAt and, if it has an expiry, expiresAt > updatedAt, however long
\* the operation waited in the mailbox.
C34_TimestampOrder ==
    [][\A s \in Shards :
          WrittenOn(s) =>
              LET stored == shards'[s].entries[shards'[s].awaiting[1].op.key]
              IN /\ stored.createdAt <= stored.updatedAt
                 /\ stored.expiresAt # 0 => stored.expiresAt > stored.updatedAt]_vars

(***************************************************************************)
(* SpecLineage: one key under sets with and without a TTL, increments,     *)
(* deletes and gets, with the clock and the sweeper, and the history of    *)
(* the writes of the key.                                                  *)
(***************************************************************************)
TrackLineage ==
    lineage' = [k \in DOMAIN lineage |->
        IF WrittenOn(ShardOf(k)) /\ shards'[ShardOf(k)].awaiting[1].op.key = k
        THEN LET stored == shards'[ShardOf(k)].entries[k]
             IN [first |-> IF lineage[k].first = 0 THEN shards'[ShardOf(k)].awaiting[1].at
                           ELSE lineage[k].first,
                 updated |-> stored.updatedAt,
                 versions |-> lineage[k].versions \cup {stored.version}]
        ELSE lineage[k]]

ObservedLineage(A) ==
    /\ A
    /\ TrackLineage
    /\ UNCHANGED <<written, casWins, run, burst, creates, deleted, lru, touched,
                   budgetBytes, admitted, lastPut, stats, boundary, minheap>>

CallLineage(A) == calls < MaxSeqCalls /\ ObservedLineage(A)

NextLineage ==
    \/ ObservedLineage(Tick)
    \/ ObservedLineage(Get(KeyA))
    \/ \E ttl \in TtlValues : CallLineage(Set(KeyA, Number5, ttl, 0, FALSE))
    \/ CallLineage(Increment(KeyA, 1))
    \/ CallLineage(Delete(KeyA, 0))
    \/ \E s \in Shards : ObservedLineage(Dispatch(s))
    \/ \E s \in Shards : ObservedLineage(Sweep(s))

SpecLineage == InitWith({0}) /\ [][NextLineage]_vars

\* C35: over the successful sets and increments of a key, createdAt is the
\* time of the first of them and never changes, updatedAt never decreases
\* and no version is installed twice.
C35_TimestampStability ==
    [][\A s \in Shards :
          WrittenOn(s) =>
              LET k == shards'[s].awaiting[1].op.key
                  stored == shards'[s].entries[k]
              IN /\ stored.createdAt = lineage'[k].first
                 /\ stored.updatedAt >= lineage[k].updated
                 /\ stored.version \notin lineage[k].versions]_vars

\* C35 as amended: a successful set or increment of a key that the index
\* holds keeps the createdAt of the entry it replaces; one of a key that the
\* index does not hold stamps createdAt with its own time; updatedAt is the
\* time of the write and never below any updatedAt stored for the key
\* before; and no version is installed twice.
C35_StableWhileHeld ==
    [][\A s \in Shards :
          WrittenOn(s) =>
              LET aw == shards'[s].awaiting[1]
                  stored == shards'[s].entries[aw.op.key]
              IN /\ aw.pre # <<>> => stored.createdAt = aw.pre[1].createdAt
                 /\ aw.pre = <<>> => stored.createdAt = aw.at
                 /\ stored.updatedAt = aw.at
                 /\ stored.updatedAt >= lineage[aw.op.key].updated
                 /\ stored.version \notin lineage[aw.op.key].versions]_vars

\* the key was written, removed, and written again at a later time, and then
\* once more: its entry keeps the time of the second create
C35_Witness ==
    /\ KeyA \in DOMAIN shards[ShardOf(KeyA)].entries
    /\ lineage[KeyA].first = 1
    /\ shards[ShardOf(KeyA)].entries[KeyA].createdAt = 2
    /\ Cardinality(lineage[KeyA].versions) = 3

(***************************************************************************)
(* SpecBoundary: the backpressure middleware in front of the routes.  A    *)
(* response emits 'finish' when it has been handed to the socket and       *)
(* 'close' when it completes or its connection ends: after 'finish', or    *)
(* alone when the client goes away before the response is written.         *)
(***************************************************************************)
\* const cleanup = () => { activeRequests--; ... }
cleanup(b) == [b EXCEPT !.activeRequests = @ - 1]

\* the middleware on one request: 503 at capacity, else count it, register
\* cleanup on 'finish' and on 'close', and call next()
Request ==
    /\ boundary.seen < MaxCalls
    /\ boundary' =
          IF boundary.activeRequests >= maxInflight
          THEN [boundary EXCEPT !.seen = @ + 1]
          ELSE [boundary EXCEPT !.seen = @ + 1,
                                !.activeRequests = @ + 1,
                                !.inflight = @ + 1]

\* res emits 'finish': the listener runs
Finish ==
    /\ boundary.inflight > 0
    /\ boundary' = [cleanup(boundary) EXCEPT !.inflight = @ - 1,
                                             !.finished = @ + 1]

\* res emits 'close' after its 'finish': the listener runs again
CloseFinished ==
    /\ boundary.finished > 0
    /\ boundary' = [cleanup(boundary) EXCEPT !.finished = @ - 1]

\* the connection ends before the response is written: 'close' alone
CloseAborted ==
    /\ boundary.inflight > 0
    /\ boundary' = [cleanup(boundary) EXCEPT !.inflight = @ - 1]

ObservedBoundary(A) ==
    /\ A
    /\ UNCHANGED <<shards, now, nextUlid, calls, lastRead, batch,
                   currentInflight, maxInflight, thrown,
                   written, casWins, run, burst, creates, deleted, lru, touched,
                   budgetBytes, admitted, lastPut, stats, lineage, minheap>>

NextBoundary ==
    \/ ObservedBoundary(Request)
    \/ ObservedBoundary(Finish)
    \/ ObservedBoundary(CloseFinished)
    \/ ObservedBoundary(CloseAborted)

SpecBoundary == InitFlow /\ [][NextBoundary]_vars

\* C36: activeRequests is the number of admitted requests whose response has
\* neither finished nor closed, it is never negative, and no more than
\* maxInflight requests are past the middleware at once.
C36_ActiveRequests ==
    /\ boundary.activeRequests = boundary.inflight
    /\ boundary.activeRequests >= 0
    /\ boundary.inflight <= maxInflight

\* the operations of a shard that were admitted and not yet answered
Held(sh) == Len(sh.operationQueue) + Len(sh.awaiting)

\* C37: no mailbox ever holds more than MaxShardMailbox pending operations,
\* the sweeper's expire operations included, and a mutating call is settled
\* within its own step: it is refused with the shards as they were, or its
\* operation is admitted to the owning shard.
C37_MailboxBound ==
    /\ [](\A s \in Shards : Len(shards[s].operationQueue) <= MaxShardMailbox)
    /\ [][calls' = calls + 1 =>
            \/ thrown' = ShardMailboxFull /\ shards' = shards
                  /\ \E s \in Shards : MailboxFull(shards[s])
            \/ /\ thrown' = NoError
               /\ \E s \in Shards :
                     /\ ~MailboxFull(shards[s])
                     /\ Held(shards'[s]) = Held(shards[s]) + 1
                     /\ \A o \in Shards \ {s} : shards'[o] = shards[o]]_vars

\* a sweep has filled a mailbox with expire operations and the expire of one
\* more due entry was refused
C37_Witness ==
    \E s \in Shards :
        /\ Len(shards[s].operationQueue) = MaxShardMailbox
        /\ \A i \in 1..MaxShardMailbox : shards[s].operationQueue[i].type = "expire"
        /\ shards[s].ttlHeap = <<>>
        /\ \E k \in DOMAIN shards[s].entries :
              \A i \in 1..MaxShardMailbox : shards[s].operationQueue[i].key # k

\* C38: a get served by a shard adds one to exactly one of hits and misses,
\* to hits iff it returns an entry; it leaves the shard's mailbox and the
\* operation in execution as they were, also when the mailbox is full; a
\* miss on an absent key changes nothing but misses; and no other step
\* changes hits or misses.
C38_HitMissAccounting ==
    [][\A s \in Shards :
          IF GetServedBy(s)
          THEN LET key == lastRead'.keys[1]
               IN /\ stats'[s].hits + stats'[s].misses
                        = stats[s].hits + stats[s].misses + 1
                  /\ stats'[s].hits = stats[s].hits + 1 <=> lastRead'.hits # <<>>
                  /\ stats'[s].misses = stats[s].misses + 1 <=> lastRead'.hits = <<>>
                  /\ shards'[s].operationQueue = shards[s].operationQueue
                  /\ shards'[s].awaiting = shards[s].awaiting
                  /\ shards'[s].isProcessing = shards[s].isProcessing
                  /\ key \notin DOMAIN shards[s].entries =>
                        /\ shards' = shards
                        /\ stats' = [stats EXCEPT ![s].misses = @ + 1]
          ELSE /\ stats'[s].hits = stats[s].hits
               /\ stats'[s].misses = stats[s].misses]_vars

\* a get has returned an entry from a shard whose mailbox is full, after a
\* get that missed
C38_Witness ==
    \E s \in Shards :
        /\ lastRead.kind = "get" /\ lastRead.hits # <<>>
        /\ ShardOf(lastRead.keys[1]) = s
        /\ MailboxFull(shards[s])
        /\ stats[s].hits >= 1 /\ stats[s].misses >= 1

(***************************************************************************)
(* SpecHeap: the MinHeap on its own, as its unit tests drive it: pushes    *)
(* of records with expiry times that repeat, pops, peeks and popExpired    *)
(* at every time.  Each pushed record has a key of its own.                *)
(***************************************************************************)
HeapTimes == 1..(MaxTime + 1)

HeapCall(op, t, result) ==
    [op |-> op, before |-> minheap.heap, at |-> t, result |-> result]

\* heap.push({ key, expiresAt, shard: 0 })
HeapPushCall(expiresAt) ==
    LET entry == [key |-> minheap.pushes + 1, expiresAt |-> expiresAt, shard |-> 0]
    IN /\ minheap.pushes < MaxSeqCalls
       /\ minheap' = [heap |-> HeapPush(minheap.heap, entry),
                      held |-> minheap.held \cup {entry},
                      run |-> <<>>,
                      pushes |-> minheap.pushes + 1,
                      last |-> HeapCall("push", 0, <<>>)]

\* heap.pop(): undefined (<<>>) on an empty heap
HeapPopCall ==
    minheap' =
        IF Len(minheap.heap) = 0
        THEN [minheap EXCEPT !.last = HeapCall("pop", 0, <<>>)]
        ELSE [minheap EXCEPT !.heap = HeapPop(@),
                             !.held = @ \ {At(minheap.heap, 0)},
                             !.run = Append(@, At(minheap.heap, 0)),
                             !.last = HeapCall("pop", 0, <<At(minheap.heap, 0)>>)]

\* heap.peek()
HeapPeekCall ==
    minheap' = [minheap EXCEPT !.last =
        HeapCall("peek", 0,
                 IF Len(minheap.heap) > 0 THEN <<At(minheap.heap, 0)>> ELSE <<>>)]

\* heap.popExpired(t)
HeapPopExpiredCall(t) ==
    LET r == popExpired(minheap.heap, t, <<>>)
    IN minheap' = [minheap EXCEPT !.heap = r[1],
                                  !.held = @ \ Range(r[2]),
                                  !.run = @ \o r[2],
                                  !.last = HeapCall("popExpired", t, r[2])]

ObservedHeap(A) ==
    /\ A
    /\ UNCHANGED <<shards, now, nextUlid, calls, lastRead, batch,
                   currentInflight, maxInflight, thrown,
                   written, casWins, run, burst, creates, deleted, lru, touched,
                   budgetBytes, admitted, lastPut, stats, lineage, boundary>>

NextHeap ==
    \/ \E expiresAt \in HeapTimes : ObservedHeap(HeapPushCall(expiresAt))
    \/ ObservedHeap(HeapPopCall)
    \/ ObservedHeap(HeapPeekCall)
    \/ \E t \in 0..(MaxTime + 1) : ObservedHeap(HeapPopExpiredCall(t))

SpecHeap == InitWith({0}) /\ [][NextHeap]_vars

\* the records of a heap array
HeapRecords(heap) == Range(heap)

\* record r expires no later than every record of the array
Earliest(r, heap) == \A i \in 1..Len(heap) : r.expiresAt <= heap[i].expiresAt

\* C39: peek returns the record of the smallest expiresAt and leaves the heap
\* as it is; pop returns and removes such a record; the records popped
\* since the last push come in non-decreasing expiresAt order; the records
\* in the heap are exactly those pushed and not popped, and size is their
\* number; pop and peek on an empty heap return undefined.
C39_MinHeapOrder ==
    /\ HeapRecords(minheap.heap) = minheap.held
    /\ Len(minheap.heap) = Cardinality(minheap.held)
    /\ \A i \in 1..Len(minheap.run) : \A j \in i..Len(minheap.run) :
          minheap.run[i].expiresAt <= minheap.run[j].expiresAt
    /\ \A i \in 1..Len(minheap.run) : Earliest(minheap.run[i], minheap.heap)
    /\ minheap.last.op \in {"pop", "peek"} =>
          IF minheap.last.before = <<>>
          THEN minheap.last.result = <<>> /\ minheap.heap = <<>>
          ELSE /\ Len(minheap.last.result) = 1
               /\ minheap.last.result[1] \in HeapRecords(minheap.last.before)
               /\ Earliest(minheap.last.result[1], minheap.last.before)
    /\ minheap.last.op = "peek" => minheap.heap = minheap.last.before
    /\ minheap.last.op = "pop" /\ minheap.last.before # <<>> =>
          /\ HeapRecords(minheap.heap)
                = HeapRecords(minheap.last.before) \ {minheap.last.result[1]}
          /\ Len(minheap.heap) = Len(minheap.last.before) - 1

\* four records with a repeated expiry time were pushed, the smallest not
\* first, and all four have been popped in order
C39_Witness ==
    /\ minheap.pushes = 4 /\ minheap.heap = <<>> /\ minheap.last.op = "pop"
    /\ Len(minheap.run) = 4
    /\ minheap.run[1].key # 1
    /\ minheap.run[2].expiresAt = minheap.run[3].expiresAt
    /\ minheap.run[1].expiresAt < minheap.run[4].expiresAt

\* the records of the array that are due at time t
DueAt(heap, t) == {r \in HeapRecords(heap) : r.expiresAt <= t}

\* C40: popExpired(t) returns each record with expiresAt <= t once, ties at
\* t included, and no other; it leaves exactly the records with
\* expiresAt > t; when none is due it returns the empty list and leaves the
\* heap as it is.
C40_PopExpired ==
    minheap.last.op = "popExpired" =>
        /\ Range(minheap.last.result) = DueAt(minheap.last.before, minheap.last.at)
        /\ Len(minheap.last.result)
              = Cardinality(DueAt(minheap.last.before, minheap.last.at))
        /\ HeapRecords(minheap.heap)
              = HeapRecords(minheap.last.before)
                    \ DueAt(minheap.last.before, minheap.last.at)
        /\ Len(minheap.heap) + Len(minheap.last.result) = Len(minheap.last.before)
        /\ DueAt(minheap.last.before, minheap.last.at) = {} =>
              minheap.last.result = <<>> /\ minheap.heap = minheap.last.before

\* popExpired has returned two records, one of them due exactly at its
\* time, and has left a later one in the heap
C40_Witness ==
    /\ minheap.last.op = "popExpired"
    /\ Len(minheap.last.result) = 2
    /\ \E i \in 1..2 : minheap.last.result[i].expiresAt = minheap.last.at
    /\ \E i \in 1..2 : minheap.last.result[i].expiresAt < minheap.last.at
    /\ Len(minheap.heap) >= 1

====
